---- MODULE Spec2Model ----
(***************************************************************************)
(* Building stock energy model: the scenario calculation engine            *)
(* (building_stock_energy_model/model.py), the process entry point         *)
(* (building_energy_process.py) and the payload validator                  *)
(* (building_stock_energy_model/validator.py).                             *)
(*                                                                         *)
(* Numbers.  The program computes on IEEE doubles held in pandas Series.   *)
(* The model computes on exact rationals [n, d] in lowest terms with       *)
(* d > 0, extended by the three special doubles the code can produce:      *)
(* NaN = [0, 0], +inf = [1, 0], -inf = [-1, 0].  Rounding error of the     *)
(* doubles is not modelled; division by zero, NaN propagation and          *)
(* comparisons with NaN follow the IEEE rules the code relies on.          *)
(***************************************************************************)
EXTENDS Integers, Sequences, FiniteSets, TLC

VARIABLES
    pc,                 \* position of the run in the pipeline
    dfCSV,              \* the building table handed to stages 18-22
    dfTemperatures,     \* hourly temperature rows of the run
    dfSchedule,         \* archetype -> hourly schedule rows (with HDH, CDH)
    dfSolarResults,     \* archetype -> hourly PV production (absent: no column)
    dictSchedule,       \* Building ID -> [use, schedule]
    dictConsolidated,   \* archetype -> consolidated table (stage 21)
    dictHourlyResults,  \* archetype -> hourly result table (stage 22)
    output,             \* formatHourlyResults' value
    request,            \* startTime, endTime, buildingUse of the call
    result,             \* what executeBuildingEnergySimulationProcess hands back
    error,              \* the exception in flight / caught, "" when none
    payload,            \* the payload under validation
    verdict,            \* validateProcessPayload's outcome
    weather,            \* the Weather Normalizer's state
    frames              \* the schedule DataFrames, by identity

vars == <<pc, dfCSV, dfTemperatures, dfSchedule, dfSolarResults, dictSchedule,
          dictConsolidated, dictHourlyResults, output, request, result, error,
          payload, verdict, weather, frames>>

engineVars == <<dfCSV, dfTemperatures, dfSchedule, dfSolarResults, dictSchedule,
                dictConsolidated, dictHourlyResults, output, request, result, error,
                frames>>

-----------------------------------------------------------------------------
(* Extended rational arithmetic *)

Abs(i) == IF i < 0 THEN -i ELSE i

Sgn(i) == IF i > 0 THEN 1 ELSE IF i < 0 THEN -1 ELSE 0

RECURSIVE GCD(_, _)
GCD(a, b) == IF b = 0 THEN a ELSE GCD(b, a % b)

\* The rational n/d in lowest terms, d > 0.
Q(n, d) ==
    LET g == GCD(Abs(n), d)
    IN  [n |-> n \div g, d |-> d \div g]

Z(i) == [n |-> i, d |-> 1]

NaN == [n |-> 0, d |-> 0]

Inf(s) == [n |-> s, d |-> 0]

IsNaN(x) == x.d = 0 /\ x.n = 0

IsFinite(x) == x.d > 0

IsZero(x) == x.d > 0 /\ x.n = 0

NMul(a, b) ==
    IF IsNaN(a) \/ IsNaN(b) THEN NaN
    ELSE IF a.d = 0 \/ b.d = 0
         THEN (IF a.n = 0 \/ b.n = 0 THEN NaN ELSE Inf(Sgn(a.n) * Sgn(b.n)))
         ELSE LET g1 == GCD(Abs(a.n), b.d)
                  g2 == GCD(Abs(b.n), a.d)
              IN  [n |-> (a.n \div g1) * (b.n \div g2),
                   d |-> (a.d \div g2) * (b.d \div g1)]

\* numpy/pandas division: x/0 is +-inf, 0/0 is NaN, nothing is raised.
NDiv(a, b) ==
    IF IsNaN(a) \/ IsNaN(b) THEN NaN
    ELSE IF b.d = 0 THEN (IF a.d = 0 THEN NaN ELSE Z(0))
    ELSE IF b.n = 0 THEN (IF a.n = 0 THEN NaN ELSE Inf(Sgn(a.n)))
    ELSE IF a.d = 0 THEN Inf(Sgn(a.n) * Sgn(b.n))
    ELSE NMul(a, [n |-> Sgn(b.n) * b.d, d |-> Abs(b.n)])

NAdd(a, b) ==
    IF IsNaN(a) \/ IsNaN(b) THEN NaN
    ELSE IF a.d = 0 /\ b.d = 0 THEN (IF a.n = b.n THEN a ELSE NaN)
    ELSE IF a.d = 0 THEN a
    ELSE IF b.d = 0 THEN b
    ELSE LET g == GCD(a.d, b.d)
         IN  Q(a.n * (b.d \div g) + b.n * (a.d \div g), (a.d \div g) * b.d)

NNeg(a) == [n |-> -a.n, d |-> a.d]

NSub(a, b) == NAdd(a, NNeg(b))

\* a < b on doubles: FALSE as soon as one side is NaN.
NLt(a, b) ==
    IF IsNaN(a) \/ IsNaN(b) THEN FALSE
    ELSE IF a.d = 0 THEN (a.n < 0 /\ ~(b.d = 0 /\ b.n < 0))
    ELSE IF b.d = 0 THEN b.n > 0
    ELSE LET g == GCD(a.d, b.d)
         IN  a.n * (b.d \div g) < b.n * (a.d \div g)

NLe(a, b) == ~IsNaN(a) /\ ~IsNaN(b) /\ ~NLt(b, a)

\* "x is a number >= 0".
NonNeg(x) == NLe(Z(0), x)

RECURSIVE NSum(_, _)
\* Sum of f[i] for i in 1..k, left to right.
NSum(f, k) == IF k = 0 THEN Z(0) ELSE NAdd(NSum(f, k - 1), f[k])

\* pandas Series.sum(): NaN entries are skipped.
RECURSIVE SeriesSum(_, _)
SeriesSum(f, k) ==
    IF k = 0 THEN Z(0)
    ELSE IF IsNaN(f[k]) THEN SeriesSum(f, k - 1)
    ELSE NAdd(SeriesSum(f, k - 1), f[k])

-----------------------------------------------------------------------------
(* Calendar *)

isleap(y) == (y % 4 = 0) /\ ((y % 100 # 0) \/ (y % 400 = 0))

DaysInMonth(y, m) ==
    IF m = 2 THEN (IF isleap(y) THEN 29 ELSE 28)
    ELSE IF m \in {4, 6, 9, 11} THEN 30 ELSE 31

RECURSIVE MonthDayFrom(_, _, _)
\* <<month, day>> of the day that lies k days after the first of month m.
MonthDayFrom(y, m, k) ==
    IF k < DaysInMonth(y, m) THEN <<m, k + 1>>
    ELSE MonthDayFrom(y, m + 1, k - DaysInMonth(y, m))

\* The 'Datetime' text of the calendar table, '%d/%m/%Y %H:%M', as its fields
\* in the order they are written: <<dd, mm, YYYY, HH, MM>>.  k counts hours
\* from 1 January 00:00 of year y.
CalendarText(y, k) ==
    LET md == MonthDayFrom(y, 1, k \div 24)
    IN  <<md[2], md[1], y, k % 24, 0>>

-----------------------------------------------------------------------------
(* Reference data of the engine (constants.py and the column tables of       *)
(* model.py)                                                                 *)

BUILDING_USES ==
    << "Apartment Block", "Single family- Terraced houses",
       "Hotels and Restaurants", "Health", "Education", "Offices", "Trade",
       "Other non-residential buildings", "Sport" >>

\* constants.COOLING_REDUCTION_FACTOR = 0.333
COOLING_REDUCTION_FACTOR == Q(333, 1000)

EndUses ==
    {"Space Heating", "Space Cooling", "Water heating", "Lighting",
     "Appliances", "Cooking"}

Buckets ==
    << "Solids|Coal", "Liquids|Gas", "Liquids|Oil", "Gases|Gas",
       "Solids|Biomass", "Electricity", "Heat", "Liquids|Biomass",
       "Gases|Biomass", "Hydrogen", "Heat|Solar" >>

BucketSet == {Buckets[i] : i \in 1..Len(Buckets)}

FC(e, t, b) == [enduse |-> e, tech |-> t, bucket |-> b]

\* The 35 'FC-<end use> (<technology>)-<bucket>' columns that stage 19 adds,
\* in the order of the column list; enduse is the DG column each is fed by
\* and bucket the carrier its name ends with.
FCColumns ==
    << FC("Space Heating", "Solids", "Solids|Coal"),
       FC("Space Heating", "LPG", "Liquids|Gas"),
       FC("Space Heating", "Diesel oil", "Liquids|Oil"),
       FC("Space Heating", "Gas heat pumps", "Gases|Gas"),
       FC("Space Heating", "Natural gas", "Gases|Gas"),
       FC("Space Heating", "Biomass", "Solids|Biomass"),
       FC("Space Heating", "Geothermal", "Electricity"),
       FC("Space Heating", "Distributed heat", "Heat"),
       FC("Space Heating", "Advanced electric heating", "Electricity"),
       FC("Space Heating", "Conventional electric heating", "Electricity"),
       FC("Space Heating", "BioOil", "Liquids|Biomass"),
       FC("Space Heating", "BioGas", "Gases|Biomass"),
       FC("Space Heating", "Hydrogen", "Hydrogen"),
       FC("Space Cooling", "Gas heat pumps", "Gases|Gas"),
       FC("Space Cooling", "Electric space cooling", "Electricity"),
       FC("Water heating", "Solids", "Solids|Coal"),
       FC("Water heating", "LPG", "Liquids|Gas"),
       FC("Water heating", "Diesel oil", "Liquids|Oil"),
       FC("Water heating", "Natural gas", "Gases|Gas"),
       FC("Water heating", "Biomass", "Solids|Biomass"),
       FC("Water heating", "Geothermal", "Electricity"),
       FC("Water heating", "Distributed heat", "Heat"),
       FC("Water heating", "Advanced electric heating", "Electricity"),
       FC("Water heating", "Electricity", "Electricity"),
       FC("Water heating", "Solar", "Heat|Solar"),
       FC("Water heating", "BioOil", "Liquids|Biomass"),
       FC("Water heating", "BioGas", "Gases|Biomass"),
       FC("Water heating", "Hydrogen", "Hydrogen"),
       FC("Cooking", "Solids", "Solids|Coal"),
       FC("Cooking", "LPG", "Liquids|Gas"),
       FC("Cooking", "Natural gas", "Gases|Gas"),
       FC("Cooking", "Biomass", "Solids|Biomass"),
       FC("Cooking", "Electricity", "Electricity"),
       FC("Lighting", "Electricity", "Electricity"),
       FC("Appliances", "Electricity", "Electricity") >>

Cols == 1..Len(FCColumns)

\* The column of end use e and technology t.
Col(e, t) == CHOOSE c \in Cols : FCColumns[c].enduse = e /\ FCColumns[c].tech = t

ColsOf(e) == {c \in Cols : FCColumns[c].enduse = e}

-----------------------------------------------------------------------------
(* Bounds and input sets of the engine specification *)

\* Hours of the calendar table that a run covers (8,760 in the program).
NHours == 3

\* Buildings of the inventory beyond one per archetype.
MaxExtra == 1

Hours == 1..NHours

\* The calendar hours of the run: the hours of 2019 from 28 February 22:00
\* on, so that the run crosses a day and a month boundary.
FirstHour == (31 + 27) * 24 + 22

Datetime(h) == CalendarText(2019, FirstHour + h - 1)

Residential == {"Apartment Block", "Single family- Terraced houses"}

\* Archetypes whose buildings the inventory varies.
FocusUses == {"Apartment Block", "Offices"}

\* Envelope and equipment of the building in row 0: <<envelope, equipment>>.
StockKinds ==
    {<<"lossy", "uniform">>, <<"gainy", "first">>, <<"lossy", "zeroeff">>}

\* Equipment shares of a building: they sum to 1 within each end use.
ShareOf(tech, c) ==
    LET e == FCColumns[c].enduse
        first == CHOOSE m \in ColsOf(e) : \A o \in ColsOf(e) : m <= o
    IN  IF tech = "first" THEN (IF c = first THEN Z(1) ELSE Z(0))
        ELSE Q(1, Cardinality(ColsOf(e)))

\* Equipment efficiencies of a building; 0 stands for "no such equipment".
EffOf(tech, c) ==
    IF tech = "zeroeff" THEN (IF c % 2 = 1 THEN Z(0) ELSE Z(2))
    ELSE Q(1 + (c % 3), 2)

\* One row of the building table as stages 6-17 leave it: the columns that
\* stages 18-22 read.
BuildingRow(id, use, phys, tech) ==
    [ BuildingID    |-> id,
      Use           |-> use,
      Sector        |-> IF use \in Residential THEN "Residential" ELSE "Service",
      OccDwellings  |-> Z(2),
      DFactor       |-> IF phys = "lossy" THEN Z(2000) ELSE Z(0),
      IGLiFactor    |-> IF phys = "lossy" THEN Z(500) ELSE Z(4000),
      IGEqFactor    |-> Z(1000),
      IGOcFactor    |-> Z(1000),
      WindowArea    |-> Z(10),
      ARLFactor     |-> Z(1000),
      NHFA          |-> Z(100),
      DHWDemand     |-> Z(3),
      CookingDemand |-> Z(1),
      pct           |-> [e \in EndUses |->
                            IF e = "Space Cooling" THEN Q(1, 2) ELSE Z(1)],
      share         |-> [c \in Cols |-> ShareOf(tech, c)],
      eff           |-> [c \in Cols |-> EffOf(tech, c)],
      opexVar       |-> [b \in BucketSet |->
                            Z(1 + (CHOOSE i \in 1..Len(Buckets) : Buckets[i] = b))],
      opexEm        |-> [b \in BucketSet |-> Z(id % 7)] ]

SeqToSet(q) == {q[i] : i \in 1..Len(q)}

RECURSIVE Table(_, _)
\* The sequence <<F(1), ..., F(n)>>.
Table(F(_), n) == IF n = 0 THEN <<>> ELSE Append(Table(F, n - 1), F(n))

RECURSIVE SelectUses(_, _)
\* BUILDING_USES without the archetypes in `skip`, order kept.
SelectUses(q, skip) ==
    IF q = <<>> THEN <<>>
    ELSE IF Head(q) \in skip THEN SelectUses(Tail(q), skip)
    ELSE <<Head(q)>> \o SelectUses(Tail(q), skip)

\* An inventory: the building of archetype `first` in row 0, one building of
\* every other archetype except those in `missing`, then the extra buildings.
Stock(first, kind, missing, extra) ==
    LET uses == <<first>> \o SelectUses(BUILDING_USES, {first} \cup missing)
        base == [i \in 1..Len(uses) |->
                    IF i = 1 THEN BuildingRow(101, first, kind[1], kind[2])
                    ELSE BuildingRow(100 + i, uses[i], "lossy", "uniform")]
    IN  base \o [i \in 1..Len(extra) |->
                    BuildingRow(200 + i, extra[i], "lossy", "first")]

ExtraSeqs == UNION {[1..n -> FocusUses] : n \in 0..MaxExtra}

\* The inventories of the runs: complete ones with extra buildings, and ones
\* where no building has the archetype Sport.
Stocks ==
    {Stock(f, k, {}, x) : f \in FocusUses, k \in StockKinds, x \in ExtraSeqs}
    \cup {Stock(f, k, {"Sport"}, <<>>) : f \in FocusUses, k \in StockKinds}

\* Row label (pandas index) of the row at position i of the building table.
RowLabel(i) == i - 1

\* Positions of the rows of df whose Building ID is id.
RowsWhereID(df, id) == {i \in 1..Len(df) : df[i].BuildingID = id}

Min(S) == CHOOSE m \in S : \A o \in S : m <= o

-----------------------------------------------------------------------------
(* Stages 2 and 4 as far as the engine reads them: temperature rows, season *)
(* multipliers, degree hours                                                *)

\* 02-BaseTemperatures.csv: row 0 heating, row 1 cooling.
dfBaseTemperatures ==
    << [BaseTemperature |-> Z(18), ThresholdTemperture |-> Z(15)],
       [BaseTemperature |-> Z(24), ThresholdTemperture |-> Z(21)] >>

\* 26-Season.csv: heating and cooling multiplier of each season.
dfSeasons ==
    [ W |-> [Heating |-> Z(1), Cooling |-> Z(0)],
      M |-> [Heating |-> Z(1), Cooling |-> Z(1)],
      S |-> [Heating |-> Z(0), Cooling |-> Z(1)] ]

\* constants.WINTER_TEMPERATURE, constants.SUMMER_TEMPERATURE
season(temp) ==
    IF NLt(temp, Z(12)) THEN "W"
    ELSE IF NLt(Q(45, 2), temp) THEN "S" ELSE "M"

\* First hourly temperatures of the runs.
TempStarts == {4, 13, 28}

\* The temperature rows of a run whose first hour has temperature t0 and
\* which warms by 3 degrees an hour; the daily and monthly averages are
\* (min + max) / 2 of the hours of the run.
TemperatureRows(t0) ==
    LET avg == Q(t0 + (t0 + 3 * (NHours - 1)), 2)
    IN  [h \in Hours |->
            [ HourlyTemperature |-> Z(t0 + 3 * (h - 1)),
              DailyAvgTemp      |-> avg,
              Season            |-> season(avg),
              Heating           |-> dfSeasons[season(avg)].Heating,
              Cooling           |-> dfSeasons[season(avg)].Cooling ]]

\* Unscaled heating / cooling degree hours of one temperature row.
RawHDH(row) ==
    LET base == dfBaseTemperatures[1].BaseTemperature
    IN  IF NLt(NSub(base, row.HourlyTemperature), Z(0)) THEN Z(0)
        ELSE IF NLt(row.DailyAvgTemp, dfBaseTemperatures[1].ThresholdTemperture)
             THEN NSub(base, row.HourlyTemperature)
             ELSE Z(0)

RawCDH(row) ==
    LET base == dfBaseTemperatures[2].BaseTemperature
    IN  IF NLt(NSub(row.HourlyTemperature, base), Z(0)) THEN Z(0)
        ELSE IF NLt(dfBaseTemperatures[2].ThresholdTemperture, row.DailyAvgTemp)
             THEN NSub(row.HourlyTemperature, base)
             ELSE Z(0)

\* 18-Schedule.csv: the behavioural profile of an archetype at hour h.  In
\* the "noCooking" table the Service archetypes have no cooking at any hour.
ScheduleRow(use, h, prof) ==
    [ Datetime  |-> Datetime(h),
      Occupancy |-> Z(h % 2),
      Lighting  |-> Q(1 + (h % 2), 2),
      Equipment |-> Q(1, 2),
      DHW       |-> Q(1 + (h % 3), 4),
      Cooking   |-> IF prof = "noCooking" /\ use \notin Residential
                    THEN Z(0) ELSE Q(h % 2, 2),
      Heating   |-> Z(1),
      Cooling   |-> Z(1) ]

\* 20/21-SolarGains*.csv, W/m2, the column of the country.
dfSolarOffice == [h \in Hours |-> Z(100 * (h % 2))]

dfSolarNOffice == [h \in Hours |-> Z(200 * (h % 2))]

\* The scenario's profile table and <<hdd_reduction, cdd_reduction>>.
Scenarios ==
    {<<"all", Z(0), Z(0)>>, <<"noCooking", Z(0), Z(0)>>,
     <<"all", Q(1, 2), Q(-1, 2)>>}

\* A degree-hour value scaled the other way round: values * (1 + reduction).
AmplifiedDegreeHours(values, reduction) == NMul(values, NAdd(Z(1), reduction))

\* values[0] * (1 - hddReduction), values[1] * (1 - cddReduction)
ScaledDegreeHours(values, reduction) == NMul(values, NSub(Z(1), reduction))

\* The schedule table with degree hours of the calendar instead of the
\* temperature file.
s04LoadDatabaseOfCalendar(temps, prof, hddReduction, cddReduction) ==
    [u \in SeqToSet(BUILDING_USES) |->
        [h \in Hours |->
            [ sched |-> ScheduleRow(u, h, prof), HDH |-> Z(0), CDH |-> Z(0) ]]]

\* s04LoadDatabase: the schedule table with the HDH and CDH columns scaled by
\* the scenario's reductions, the same series for every archetype.
s04LoadDatabase(temps, prof, hddReduction, cddReduction) ==
    [u \in SeqToSet(BUILDING_USES) |->
        [h \in Hours |->
            [ sched |-> ScheduleRow(u, h, prof),
              HDH   |-> ScaledDegreeHours(RawHDH(temps[h]), hddReduction),
              CDH   |-> ScaledDegreeHours(RawCDH(temps[h]), cddReduction) ]]]

-----------------------------------------------------------------------------
(* Stage 18: the general schedule of each archetype, one entry per building *)

GeneralSchedule(use, sched, temps) ==
    [h \in Hours |->
        [ Datetime  |-> sched[use][h].sched.Datetime,
          Occupancy |-> sched[use][h].sched.Occupancy,
          Lighting  |-> sched[use][h].sched.Lighting,
          Equipment |-> sched[use][h].sched.Equipment,
          DHW       |-> sched[use][h].sched.DHW,
          Cooking   |-> sched[use][h].sched.Cooking,
          HDH       |-> sched[use][h].HDH,
          CDH       |-> sched[use][h].CDH,
          Heating   |-> NMul(sched[use][h].sched.Heating, temps[h].Heating),
          Cooling   |-> NMul(sched[use][h].sched.Cooling, temps[h].Cooling),
          BaseHeatingTemp |-> dfBaseTemperatures[1].BaseTemperature,
          BaseCoolingTemp |-> dfBaseTemperatures[2].BaseTemperature,
          HourlyTemp      |-> temps[h].HourlyTemperature,
          Solar     |-> IF use = "Offices" THEN dfSolarOffice[h]
                        ELSE dfSolarNOffice[h] ]]

BuildingIDs(df) == {df[i].BuildingID : i \in 1..Len(df)}

\* dictSchedule[Building ID] = {use, schedule}; a later row with the same
\* Building ID replaces the entry of an earlier one.
s18CalculateGeneralSchedule(df, sched, temps) ==
    [id \in BuildingIDs(df) |->
        LET i == CHOOSE j \in RowsWhereID(df, id) :
                    \A k \in RowsWhereID(df, id) : k <= j
        IN  [use |-> df[i].Use,
             schedule |-> GeneralSchedule(df[i].Use, sched, temps)]]

-----------------------------------------------------------------------------
(* Stage 19: demand, gains, demand considering gains, final consumption *)

\* .apply(lambda x: 0 if x < 0 else x)
ClampDG(x) == IF NLt(x, Z(0)) THEN Z(0) ELSE x

\* .apply(lambda x: 0 if (x < 0 or pd.isna(x)) else x)
ClampFC(x) == IF NLt(x, Z(0)) \/ IsNaN(x) THEN Z(0) ELSE x

Kilo(x) == NDiv(x, Z(1000))

DwellingsValue(csv) ==
    IF csv.Sector = "Residential" THEN csv.OccDwellings ELSE Z(1)

\* The D-, IG- and ARL- columns of hour h.
DemandRow(csv, S, h) ==
    [ DHeating    |-> Kilo(NMul(csv.DFactor, S[h].HDH)),
      DCooling    |-> Kilo(NMul(csv.DFactor, S[h].CDH)),
      IGLighting  |-> Kilo(NMul(csv.IGLiFactor, S[h].Lighting)),
      IGEquipment |-> Kilo(NMul(csv.IGEqFactor, S[h].Equipment)),
      IGOccupancy |-> Kilo(NMul(csv.IGOcFactor, S[h].Occupancy)),
      IGSolar     |-> Kilo(NMul(csv.WindowArea, S[h].Solar)),
      ARLHeating  |-> Kilo(NMul(csv.ARLFactor,
                                NSub(S[h].BaseHeatingTemp, S[h].HourlyTemp))),
      ARLCooling  |-> Kilo(NMul(csv.ARLFactor,
                                NSub(S[h].HourlyTemp, S[h].BaseCoolingTemp))) ]

\* The heating demand of hour h without the air renovation losses.
RawSpaceHeatingNoVentilation(csv, S, h) ==
    LET d == DemandRow(csv, S, h)
    IN  NMul(NMul(NMul(NSub(NSub(NSub(NSub(d.DHeating, d.IGLighting),
                                       d.IGEquipment),
                                  d.IGOccupancy),
                             d.IGSolar),
                        S[h].Heating),
                  csv.pct["Space Heating"]),
             DwellingsValue(csv))

\* The demand of hour h before it is clamped.
RawSpaceHeating(csv, S, h) ==
    LET d == DemandRow(csv, S, h)
    IN  NMul(NMul(NMul(NSub(NSub(NSub(NSub(NAdd(d.DHeating, d.ARLHeating),
                                            d.IGLighting),
                                       d.IGEquipment),
                                  d.IGOccupancy),
                             d.IGSolar),
                        S[h].Heating),
                  csv.pct["Space Heating"]),
             DwellingsValue(csv))

RawSpaceCooling(csv, S, h) ==
    LET d == DemandRow(csv, S, h)
    IN  NMul(NMul(NMul(NMul(NAdd(NAdd(NAdd(NAdd(NAdd(d.DCooling, d.ARLCooling),
                                                 d.IGLighting),
                                            d.IGEquipment),
                                       d.IGOccupancy),
                                  d.IGSolar),
                             S[h].Cooling),
                        COOLING_REDUCTION_FACTOR),
                  csv.pct["Space Cooling"]),
             DwellingsValue(csv))

\* An annual demand per m2 spread over the hours by the profile's shares.
RawProfiled(csv, profile, h, demand, pct) ==
    NMul(NMul(NDiv(NMul(NMul(profile[h], csv.NHFA), demand),
                   SeriesSum(profile, NHours)),
              pct),
         DwellingsValue(csv))

RawDG(csv, S, e, h) ==
    CASE e = "Space Heating" -> RawSpaceHeating(csv, S, h)
      [] e = "Space Cooling" -> RawSpaceCooling(csv, S, h)
      [] e = "Water heating" ->
            RawProfiled(csv, [k \in Hours |-> S[k].DHW], h, csv.DHWDemand,
                        csv.pct["Water heating"])
      [] e = "Lighting" ->
            NMul(NMul(DemandRow(csv, S, h).IGLighting, csv.pct["Lighting"]),
                 DwellingsValue(csv))
      [] e = "Appliances" ->
            NMul(NMul(DemandRow(csv, S, h).IGEquipment, csv.pct["Appliances"]),
                 DwellingsValue(csv))
      [] e = "Cooking" ->
            RawProfiled(csv, [k \in Hours |-> S[k].Cooking], h,
                        csv.CookingDemand, csv.pct["Cooking"])

\* The DG- column of end use e.
DemandGains(csv, S, e) == [h \in Hours |-> ClampDG(RawDG(csv, S, e, h))]

\* The three space-heating columns written as
\*   (DG * csv['SH. x']).iloc[0] / csv['Eff. SH. x'].iloc[0]
\* multiply the hourly series (labels 0..) by the one-row share series (label:
\* the building's row label), which aligns the two on their labels, and take
\* the first element of the product: DG[0] * share when the building is row 0,
\* NaN otherwise.  That one number fills the column.
SharedLabelColumns ==
    {Col("Space Heating", "Solids"), Col("Space Heating", "LPG"),
     Col("Space Heating", "Diesel oil")}

FirstOfAlignedProduct(dg, label, share) ==
    IF label = 0 THEN NMul(dg[1], share) ELSE NaN

\* Stage 19 without the "if efficiency != 0 else 0" guard.
FinalConsumptionUnguarded(csv, label, dg, c, h) ==
    IF c \in SharedLabelColumns
    THEN ClampFC(NDiv(FirstOfAlignedProduct(dg, label, csv.share[c]),
                      csv.eff[c]))
    ELSE ClampFC(NDiv(NMul(dg[h], csv.share[c]), csv.eff[c]))

\* The FC- column c at hour h, for the building at row `label`.
FinalConsumption(csv, label, dg, c, h) ==
    IF IsZero(csv.eff[c]) THEN Z(0)
    ELSE IF c \in SharedLabelColumns
         THEN ClampFC(NDiv(FirstOfAlignedProduct(dg, label, csv.share[c]),
                           csv.eff[c]))
         ELSE ClampFC(NDiv(NMul(dg[h], csv.share[c]), csv.eff[c]))

\* The end uses in the order stage 19 computes them.
EndUseOrder ==
    <<"Space Heating", "Space Cooling", "Water heating", "Lighting",
      "Appliances", "Cooking">>

EndUseIndex(e) == CHOOSE k \in 1..Len(EndUseOrder) : EndUseOrder[k] = e

\* The schedule of one building after stage 19: first the DG- columns, then
\* the FC- columns computed from them.
ScenarioSchedule(csv, label, S) ==
    LET column(k) == LET e == EndUseOrder[k]
                     IN  Table(LAMBDA h : DemandGains(csv, S, e)[h], NHours)
        dg == Table(column, Len(EndUseOrder))
    IN  [h \in Hours |->
            [ Datetime |-> S[h].Datetime,
              DG |-> [e \in EndUses |-> dg[EndUseIndex(e)][h]],
              FC |-> [c \in Cols |->
                        FinalConsumption(csv, label,
                                         dg[EndUseIndex(FCColumns[c].enduse)],
                                         c, h)] ]]

\* s19CalculateScenario: every entry of dictSchedule gets its own table
\* (pd.concat builds a new one) computed from the first row of the building
\* table that carries the entry's Building ID.
s19CalculateScenario(df, dict) ==
    [key \in DOMAIN dict |->
        LET i == Min(RowsWhereID(df, key))
        IN  [use |-> dict[key].use,
             base |-> dict[key].schedule,
             schedule |-> ScenarioSchedule(df[i], RowLabel(i),
                                           dict[key].schedule)]]

-----------------------------------------------------------------------------
(* Stages 21 and 22: the per-archetype roll-ups *)

SH(t) == Col("Space Heating", t)

SC(t) == Col("Space Cooling", t)

WH(t) == Col("Water heating", t)

CK(t) == Col("Cooking", t)

ConsolidatedGroups ==
    {"Space Heating", "Space Cooling", "Water Heating", "Lighting",
     "Appliances", "Cooking"}

\* The FC columns that s21CalculateConsolidate adds into column
\* '<bucket> (<group>)'.
ConsolidatedSources(b, g) ==
    CASE g = "Space Heating" ->
            ( CASE b = "Solids|Coal" -> {SH("Solids")}
                [] b = "Liquids|Gas" -> {SH("LPG")}
                [] b = "Liquids|Oil" -> {SH("Diesel oil")}
                [] b = "Gases|Gas" -> {SH("Gas heat pumps"), SH("Natural gas")}
                [] b = "Solids|Biomass" -> {SH("Biomass")}
                [] b = "Electricity" ->
                      {SH("Geothermal"), SH("Advanced electric heating"),
                       SH("Conventional electric heating")}
                [] b = "Heat" -> {SH("Distributed heat")}
                [] b = "Liquids|Biomass" -> {SH("BioOil")}
                [] b = "Gases|Biomass" -> {SH("BioGas")}
                [] b = "Hydrogen" -> {SH("Hydrogen")}
                [] OTHER -> {} )
      [] g = "Space Cooling" ->
            ( CASE b = "Gases|Gas" -> {SC("Gas heat pumps")}
                [] b = "Electricity" -> {SC("Electric space cooling")}
                [] OTHER -> {} )
      [] g = "Water Heating" ->
            ( CASE b = "Solids|Coal" -> {WH("Solids")}
                [] b = "Liquids|Gas" -> {WH("LPG")}
                [] b = "Liquids|Oil" -> {WH("Diesel oil")}
                [] b = "Gases|Gas" -> {WH("Natural gas")}
                [] b = "Solids|Biomass" -> {WH("Biomass")}
                [] b = "Electricity" ->
                      {WH("Geothermal"), WH("Advanced electric heating"),
                       WH("Electricity")}
                [] b = "Heat" -> {WH("Distributed heat")}
                [] b = "Heat|Solar" -> {WH("Solar")}
                [] b = "Liquids|Biomass" -> {WH("BioOil")}
                [] b = "Gases|Biomass" -> {WH("BioGas")}
                [] b = "Hydrogen" -> {WH("Hydrogen")}
                [] OTHER -> {} )
      [] g = "Lighting" ->
            ( CASE b = "Electricity" -> {Col("Lighting", "Electricity")}
                [] OTHER -> {} )
      [] g = "Appliances" ->
            ( CASE b = "Electricity" -> {Col("Appliances", "Electricity")}
                [] OTHER -> {} )
      [] g = "Cooking" ->
            ( CASE b = "Solids|Coal" -> {CK("Solids")}
                [] b = "Liquids|Gas" -> {CK("LPG")}
                [] b = "Gases|Gas" -> {CK("Natural gas")}
                [] b = "Solids|Biomass" -> {CK("Biomass")}
                [] b = "Electricity" -> {CK("Electricity")}
                [] OTHER -> {} )

\* Stage 22 with the solar water-heating column also added into Heat.
HourlySourcesSolarTwice(b) ==
    {c \in Cols : FCColumns[c].bucket = b}
    \cup (IF b = "Heat" THEN {WH("Solar")} ELSE {})

\* The FC columns that s22CalculateHourlyResults adds into bucket b.
HourlySources(b) ==
    CASE b = "Solids|Coal" -> {SH("Solids"), WH("Solids"), CK("Solids")}
      [] b = "Liquids|Gas" -> {SH("LPG"), WH("LPG"), CK("LPG")}
      [] b = "Liquids|Oil" -> {SH("Diesel oil"), WH("Diesel oil")}
      [] b = "Gases|Gas" ->
            {SH("Gas heat pumps"), SH("Natural gas"), SC("Gas heat pumps"),
             WH("Natural gas"), CK("Natural gas")}
      [] b = "Solids|Biomass" -> {SH("Biomass"), WH("Biomass"), CK("Biomass")}
      [] b = "Electricity" ->
            {SH("Geothermal"), SH("Advanced electric heating"),
             SH("Conventional electric heating"), SC("Electric space cooling"),
             WH("Geothermal"), WH("Advanced electric heating"),
             WH("Electricity"), Col("Lighting", "Electricity"),
             Col("Appliances", "Electricity"), CK("Electricity")}
      [] b = "Heat" -> {SH("Distributed heat"), WH("Distributed heat")}
      [] b = "Liquids|Biomass" -> {SH("BioOil"), WH("BioOil")}
      [] b = "Gases|Biomass" -> {SH("BioGas"), WH("BioGas")}
      [] b = "Hydrogen" -> {SH("Hydrogen"), WH("Hydrogen")}
      [] b = "Heat|Solar" -> {WH("Solar")}

RECURSIVE SumCols(_, _)
\* Sum of the FC columns in set S of one schedule row.
SumCols(fc, S) ==
    IF S = {} THEN Z(0)
    ELSE LET c == Min(S) IN NAdd(fc[c], SumCols(fc, S \ {c}))

\* Positions, in table order, of the buildings of an archetype whose
\* dictSchedule entry the roll-ups visit.
RECURSIVE RowsInOrder(_, _, _)
RowsInOrder(df, use, i) ==
    IF i > Len(df) THEN <<>>
    ELSE IF df[i].Use = use /\ i = Min(RowsWhereID(df, df[i].BuildingID))
         THEN <<i>> \o RowsInOrder(df, use, i + 1)
         ELSE RowsInOrder(df, use, i + 1)

RECURSIVE UseRows(_, _, _)
\* dfCSV[dfCSV['Use'] == archetype]: the positions of its rows, in order.
UseRows(df, use, i) ==
    IF i > Len(df) THEN <<>>
    ELSE IF df[i].Use = use THEN <<i>> \o UseRows(df, use, i + 1)
    ELSE UseRows(df, use, i + 1)

RECURSIVE SumOver(_, _)
\* Sum of f[k] for the positions k of sequence q.
SumOver(f, q) == IF q = <<>> THEN Z(0) ELSE NAdd(f[Head(q)], SumOver(f, Tail(q)))

\* s21CalculateConsolidate: the table of one archetype.  The Datetime column
\* is inserted when the first building of the archetype is visited.
s21CalculateConsolidate(df, dict, archetype) ==
    LET rows == RowsInOrder(df, archetype, 1)
    IN  [ hasDatetime |-> rows # <<>>,
          rows |-> [h \in Hours |->
            [ Datetime |-> IF rows = <<>> THEN <<>>
                           ELSE dict[df[rows[1]].BuildingID].schedule[h].Datetime,
              value |-> [g \in ConsolidatedGroups |-> [b \in BucketSet |->
                  SumOver([i \in 1..Len(df) |->
                              SumCols(dict[df[i].BuildingID].schedule[h].FC,
                                      ConsolidatedSources(b, g))],
                          rows)]] ]] ]


\* The building-table row whose cost and emission factors s22 applies to the
\* hour with label k: the archetype's rows, each repeated
\* len(schedule) - len(csv) times, renumbered from 0; 0 when the repeated
\* table has no row k (the product is NaN there).
FactorRow(rows, k) ==
    LET n == NHours - Len(rows)
    IN  IF n > 0 /\ k < Len(rows) * n THEN rows[(k \div n) + 1] ELSE 0

\* The columns of each bucket, in the order of Buckets.
HourlyColumns == Table(LAMBDA j : HourlySources(Buckets[j]), Len(Buckets))

BucketIndex(b) == CHOOSE j \in 1..Len(Buckets) : Buckets[j] = b

\* solidsCoal, liquidsGas, ...: the sums of one building's FC columns per
\* bucket at one hour, in the order of Buckets.
BucketSums(fc) == Table(LAMBDA j : SumCols(fc, HourlyColumns[j]), Len(Buckets))

\* Sum over the buckets of (consumption of the building in the bucket) x
\* (the factor row's unit factor).
RECURSIVE WeightedSum(_, _, _, _)
WeightedSum(sums, factors, field, i) ==
    IF i = 0 THEN Z(0)
    ELSE NAdd(WeightedSum(sums, factors, field, i - 1),
              NMul(sums[i], factors[field][Buckets[i]]))

\* What one building adds to the Electricity bucket at hour h: its
\* electricity columns minus the archetype's PV production in kWh.
ElectricityTerm(electricity, pv, h) == NSub(electricity, Kilo(pv[h]))

\* s22CalculateHourlyResults: the table of one archetype, or the exception
\* the stage raises.
s22CalculateHourlyResults(df, dfSolar, dict, archetype) ==
    LET rows == RowsInOrder(df, archetype, 1)
        csv == UseRows(df, archetype, 1)
    IN  IF rows = <<>>
        THEN [ raised |-> "", hasDatetime |-> FALSE,
               rows |-> [h \in Hours |->
                  [ Datetime |-> <<>>,
                    value |-> [b \in BucketSet |-> Z(0)],
                    VariableCost |-> Z(0), Emissions |-> Z(0) ]] ]
        ELSE IF archetype \notin DOMAIN dfSolar
        THEN [raised |-> "KeyError", hasDatetime |-> TRUE, rows |-> <<>>]
        ELSE IF NHours - Len(csv) < 0
        THEN [raised |-> "ValueError", hasDatetime |-> TRUE, rows |-> <<>>]
        ELSE
          [ raised |-> "", hasDatetime |-> TRUE,
            rows |-> [h \in Hours |->
              LET k == FactorRow(csv, h - 1)
                  sums == Table(LAMBDA r :
                            BucketSums(dict[df[rows[r]].BuildingID].schedule[h].FC),
                            Len(rows))
                  all == [r \in 1..Len(rows) |-> r]
                  cost(field) ==
                      IF k = 0 THEN NaN
                      ELSE SumOver([r \in 1..Len(rows) |->
                                      WeightedSum(sums[r], df[k], field,
                                                  Len(Buckets))],
                                   all)
              IN
              [ Datetime |-> dict[df[rows[1]].BuildingID].schedule[h].Datetime,
                value |-> [b \in BucketSet |->
                    IF b = "Electricity"
                    THEN SumOver([r \in 1..Len(rows) |->
                                    ElectricityTerm(sums[r][BucketIndex(b)],
                                                    dfSolar[archetype], h)],
                                 all)
                    ELSE SumOver([r \in 1..Len(rows) |->
                                    sums[r][BucketIndex(b)]],
                                 all)],
                VariableCost |-> cost("opexVar"),
                Emissions |-> cost("opexEm") ]] ]

-----------------------------------------------------------------------------
(* building_energy_process.py *)

\* datetime.strptime(text, '%d/%m/%Y %H:%M')
ParseCalendarText(t) == [Y |-> t[3], m |-> t[2], d |-> t[1], H |-> t[4], M |-> t[5], S |-> 0]

\* datetime.strftime('%Y-%m-%d %H:%M'): the fields in the order written.
FormatIso(dt) == <<dt.Y, dt.m, dt.d, dt.H, dt.M>>

\* pd.to_datetime of a '%Y-%m-%d %H:%M' text.
ToTimestamp(t) == <<t[1], t[2], t[3], t[4], t[5], 0>>

\* datetime.strptime(text, '%Y-%m-%dT%H:%M:%S') of a command-line time given
\* by its fields <<Y, m, d, H, M, S>>.
ParseCommandTime(t) == <<t[1], t[2], t[3], t[4], t[5], t[6]>>

RECURSIVE TimestampLe(_, _)
\* a <= b for timestamps: fields compared from the year down.
TimestampLe(a, b) ==
    IF a = <<>> THEN TRUE
    ELSE IF Head(a) # Head(b) THEN Head(a) < Head(b)
    ELSE TimestampLe(Tail(a), Tail(b))

\* formatHourlyResults: archetype -> list of export records, or the KeyError
\* of row['Datetime'] on a table that has no Datetime column.
formatHourlyResults(dictHourly, archetypes) ==
    IF \E i \in 1..Len(archetypes) : ~dictHourly[archetypes[i]].hasDatetime
    THEN [raised |-> "KeyError", value |-> <<>>]
    ELSE [ raised |-> "",
           value |-> [a \in SeqToSet(archetypes) |->
              [h \in Hours |->
                 [ Datetime |-> FormatIso(ParseCalendarText(
                                    dictHourly[a].rows[h].Datetime)),
                   value |-> dictHourly[a].rows[h].value,
                   VariableCost |-> dictHourly[a].rows[h].VariableCost,
                   Emissions |-> dictHourly[a].rows[h].Emissions ]]] ]

\* result['Datetime'] = pd.to_datetime(result['Datetime'])
WithTimestamps(rows) ==
    [i \in 1..Len(rows) |-> [rows[i] EXCEPT !.Datetime = ToTimestamp(@)]]

RECURSIVE FilterWindowExclusive(_, _, _)
\* A filter whose window leaves out the end instant.
FilterWindowExclusive(rows, start, end) ==
    IF rows = <<>> THEN <<>>
    ELSE LET ts == Head(rows).Datetime
             rest == FilterWindowExclusive(Tail(rows), start, end)
         IN  IF TimestampLe(start, ts) /\ TimestampLe(ts, end) /\ ts # end
             THEN <<Head(rows)>> \o rest ELSE rest

\* result[(result['Datetime'] >= start) & (result['Datetime'] <= end)]
RECURSIVE FilterWindow(_, _, _)
FilterWindow(rows, start, end) ==
    IF rows = <<>> THEN <<>>
    ELSE LET ts == Head(rows).Datetime
             rest == FilterWindow(Tail(rows), start, end)
         IN  IF TimestampLe(start, ts) /\ TimestampLe(ts, end)
             THEN <<Head(rows)>> \o rest ELSE rest

\* The numeric columns of an export record.
NumericValues(row) ==
    {row.value[b] : b \in BucketSet} \cup {row.VariableCost, row.Emissions}

\* An output check that looks at the cost and emission columns only.
validateCostColumnsOnly(rows) ==
    \E i \in 1..Len(rows) :
        NLt(rows[i].VariableCost, Z(0)) \/ NLt(rows[i].Emissions, Z(0))

\* validateProcessOutput: (numericColumns < 0).any().any()
validateProcessOutput(rows) ==
    \E i \in 1..Len(rows) : \E x \in NumericValues(rows[i]) : NLt(x, Z(0))

\* DataFrame.to_dict(orient='list'): column name -> list of the column's
\* values, in row order.
to_dict(rows) ==
    [ Datetime     |-> [i \in 1..Len(rows) |-> rows[i].Datetime],
      value        |-> [b \in BucketSet |->
                          [i \in 1..Len(rows) |-> rows[i].value[b]]],
      VariableCost |-> [i \in 1..Len(rows) |-> rows[i].VariableCost],
      Emissions    |-> [i \in 1..Len(rows) |-> rows[i].Emissions] ]

\* The tail of executeBuildingEnergySimulationProcess, from the model's
\* output to the value handed back or the exception raised.
FilterAndValidate(out, startTime, endTime, buildingUse) ==
    IF buildingUse \notin DOMAIN out
    THEN [raised |-> "KeyError", value |-> <<>>]
    ELSE LET filtered == FilterWindow(WithTimestamps(out[buildingUse]),
                                      ParseCommandTime(startTime),
                                      ParseCommandTime(endTime))
         IN  IF validateProcessOutput(filtered)
             THEN [raised |-> "The output contains negative values!",
                   value |-> <<>>]
             ELSE [raised |-> "", value |-> to_dict(filtered)]

-----------------------------------------------------------------------------
(* The run of executeBuildingEnergySimulationProcess, stage by stage *)

PvKinds == {"small", "big", "noOffices"}

\* s05RetrieveSolarData: hourly PV production (Wh) of each archetype whose
\* installed area is > 0; an archetype with area 0 gets no column.
s05RetrieveSolarData(pv) ==
    [a \in (IF pv = "noOffices" THEN SeqToSet(BUILDING_USES) \ {"Offices"}
            ELSE SeqToSet(BUILDING_USES)) |->
        [h \in Hours |-> IF pv = "big" THEN Z(100000 * h) ELSE Z(300)]]

\* Command-line times <<Y, m, d, H, M, S>>: the hour before the run's first
\* hour, the hours of the run, the hour after its last.
CommandTime(h) ==
    LET t == Datetime(h) IN <<t[3], t[2], t[1], t[4], t[5], 0>>

Windows ==
    {<<CommandTime(a), CommandTime(b)>> : a \in {0, 2}, b \in {2, NHours + 1}}

Idle == "idle"

\* What the caller holds: nothing yet, None, or the dict handed back.
Pending == [kind |-> "pending", dict |-> <<>>]

None == [kind |-> "None", dict |-> <<>>]

Returned(d) == [kind |-> "dict", dict |-> d]

NoRequest == [startTime |-> <<>>, endTime |-> <<>>, buildingUse |-> ""]

Init ==
    /\ pc = "s02"
    /\ dfCSV \in Stocks
    /\ dfTemperatures = <<>>
    /\ dfSchedule = <<>>
    /\ dfSolarResults = <<>>
    /\ dictSchedule = <<>>
    /\ dictConsolidated = <<>>
    /\ dictHourlyResults = <<>>
    /\ output = <<>>
    /\ request = NoRequest
    /\ result = Pending
    /\ error = ""
    /\ frames = <<>>
    /\ payload = Idle
    /\ verdict = Idle
    /\ weather = Idle

Raise(msg) ==
    /\ error' = msg
    /\ pc' = "except"

\* s02RetrieveTemperatures: the region must be mapped and the download must
\* answer 200.
ExecS02 ==
    /\ pc = "s02"
    /\ \E mapped \in BOOLEAN, status \in {200, 404}, t0 \in TempStarts :
          IF ~mapped
          THEN Raise("ValueError: not mapped") /\ UNCHANGED dfTemperatures
          ELSE IF status # 200
          THEN Raise("ValueError: temperatures not downloaded")
               /\ UNCHANGED dfTemperatures
          ELSE /\ dfTemperatures' = TemperatureRows(t0)
               /\ pc' = "s03"
               /\ UNCHANGED error
    /\ UNCHANGED <<dfCSV, dfSchedule, dfSolarResults, dictSchedule,
                   dictConsolidated, dictHourlyResults, output, request,
                   result, payload, verdict, weather, frames>>

\* s03RetrieveRadiationValues
ExecS03 ==
    /\ pc = "s03"
    /\ \E status \in {200, 503} :
          IF status # 200
          THEN Raise("ValueError: radiation not downloaded")
          ELSE pc' = "s04" /\ UNCHANGED error
    /\ UNCHANGED <<dfCSV, dfTemperatures, dfSchedule, dfSolarResults,
                   dictSchedule, dictConsolidated, dictHourlyResults, output,
                   request, result, payload, verdict, weather, frames>>

ExecS04 ==
    /\ pc = "s04"
    /\ \E sc \in Scenarios :
          dfSchedule' = s04LoadDatabase(dfTemperatures, sc[1], sc[2], sc[3])
    /\ pc' = "s05"
    /\ UNCHANGED <<dfCSV, dfTemperatures, dfSolarResults, dictSchedule,
                   dictConsolidated, dictHourlyResults, output, request,
                   result, error, payload, verdict, weather, frames>>

ExecS05 ==
    /\ pc = "s05"
    /\ \E pv \in PvKinds : dfSolarResults' = s05RetrieveSolarData(pv)
    /\ pc' = "s18"
    /\ UNCHANGED <<dfCSV, dfTemperatures, dfSchedule, dictSchedule,
                   dictConsolidated, dictHourlyResults, output, request,
                   result, error, payload, verdict, weather, frames>>

ExecS18 ==
    /\ pc = "s18"
    /\ dictSchedule' = s18CalculateGeneralSchedule(dfCSV, dfSchedule,
                                                   dfTemperatures)
    /\ pc' = "s19"
    /\ UNCHANGED <<dfCSV, dfTemperatures, dfSchedule, dfSolarResults,
                   dictConsolidated, dictHourlyResults, output, request,
                   result, error, payload, verdict, weather, frames>>

ExecS19 ==
    /\ pc = "s19"
    /\ dictSchedule' = s19CalculateScenario(dfCSV, dictSchedule)
    /\ pc' = "s21"
    /\ UNCHANGED <<dfCSV, dfTemperatures, dfSchedule, dfSolarResults,
                   dictConsolidated, dictHourlyResults, output, request,
                   result, error, payload, verdict, weather, frames>>

\* for arch in constants.BUILDING_USES: s21CalculateConsolidate
ExecS21 ==
    /\ pc = "s21"
    /\ dictConsolidated' =
          [a \in SeqToSet(BUILDING_USES) |->
              s21CalculateConsolidate(dfCSV, dictSchedule, a)]
    /\ pc' = "s22"
    /\ UNCHANGED <<dfCSV, dfTemperatures, dfSchedule, dfSolarResults,
                   dictSchedule, dictHourlyResults, output, request, result,
                   error, payload, verdict, weather, frames>>

\* for arch in constants.BUILDING_USES: s22CalculateHourlyResults; the first
\* archetype whose stage raises ends the loop.
ExecS22 ==
    /\ pc = "s22"
    /\ LET tables == [a \in SeqToSet(BUILDING_USES) |->
                        s22CalculateHourlyResults(dfCSV, dfSolarResults,
                                                  dictSchedule, a)]
           failed == {i \in 1..Len(BUILDING_USES) :
                        tables[BUILDING_USES[i]].raised # ""}
       IN  IF failed # {}
           THEN /\ Raise(tables[BUILDING_USES[Min(failed)]].raised)
                /\ UNCHANGED dictHourlyResults
           ELSE /\ dictHourlyResults' = tables
                /\ pc' = "format"
                /\ UNCHANGED error
    /\ UNCHANGED <<dfCSV, dfTemperatures, dfSchedule, dfSolarResults,
                   dictSchedule, dictConsolidated, output, request, result,
                   payload, verdict, weather, frames>>

\* del dictSchedule; return formatHourlyResults(...)
ExecFormat ==
    /\ pc = "format"
    /\ LET f == formatHourlyResults(dictHourlyResults, BUILDING_USES)
       IN  IF f.raised # ""
           THEN Raise(f.raised) /\ UNCHANGED output
           ELSE output' = f.value /\ pc' = "return" /\ UNCHANGED error
    /\ dictSchedule' = <<>>
    /\ UNCHANGED <<dfCSV, dfTemperatures, dfSchedule, dfSolarResults,
                   dictConsolidated, dictHourlyResults, request, result,
                   payload, verdict, weather, frames>>

\* The filter, the output validation and the return, for a call whose
\* window is in W and whose archetype is in U.
Return(W, U) ==
    /\ pc = "return"
    /\ \E w \in W, use \in U :
          LET r == FilterAndValidate(output, w[1], w[2], use)
          IN  /\ request' = [startTime |-> w[1], endTime |-> w[2],
                             buildingUse |-> use]
              /\ IF r.raised # ""
                 THEN Raise(r.raised) /\ UNCHANGED result
                 ELSE result' = Returned(r.value) /\ pc' = "done"
                      /\ UNCHANGED error
    /\ UNCHANGED <<dfCSV, dfTemperatures, dfSchedule, dfSolarResults,
                   dictSchedule, dictConsolidated, dictHourlyResults, output,
                   payload, verdict, weather, frames>>

ExecReturn == Return(Windows, FocusUses)

\* except Exception as error: print(...); the function then ends and hands
\* back None.
ExecExcept ==
    /\ pc = "except"
    /\ result' = None
    /\ pc' = "done"
    /\ UNCHANGED <<dfCSV, dfTemperatures, dfSchedule, dfSolarResults,
                   dictSchedule, dictConsolidated, dictHourlyResults, output,
                   request, error, payload, verdict, weather, frames>>

Next ==
    \/ ExecS02
    \/ ExecS03
    \/ ExecS04
    \/ ExecS05
    \/ ExecS18
    \/ ExecS19
    \/ ExecS21
    \/ ExecS22
    \/ ExecFormat
    \/ ExecReturn
    \/ ExecExcept

Spec == Init /\ [][Next]_vars

-----------------------------------------------------------------------------
(* Properties of the scenario engine (specification Spec) *)

\* Stage 19 has just run.
AfterS19 == pc = "s21"

\* The building-table row stage 19 used for the entry `key`.
CsvOf(key) == dfCSV[Min(RowsWhereID(dfCSV, key))]

\* The FC columns whose name ends in the bucket Buckets[j].
ColumnsOfBucket ==
    Table(LAMBDA j : {c \in Cols : FCColumns[c].bucket = Buckets[j]},
          Len(Buckets))

\* C1: after stage 19, for every building, every FC column whose efficiency
\* is not 0 and every hour h, FC[h] is DG[h] x share / efficiency of that same
\* hour, replaced by 0 when negative or NaN - the space-heating columns
\* Solids, LPG and Diesel oil included.
C1_FinalConsumptionOfSameHour ==
    AfterS19 =>
        \A key \in DOMAIN dictSchedule :
            LET csv == CsvOf(key)
            IN  \A c \in Cols : \A h \in Hours :
                  LET row == dictSchedule[key].schedule[h]
                  IN  ~IsZero(csv.eff[c]) =>
                        row.FC[c] =
                            ClampFC(NDiv(NMul(row.DG[FCColumns[c].enduse],
                                              csv.share[c]),
                                         csv.eff[c]))

\* C2: after stage 19, for every building and hour, every DG- value and every
\* FC- value is a number greater than or equal to 0.
C2_DemandAndConsumptionNonNegative ==
    AfterS19 =>
        \A key \in DOMAIN dictSchedule : \A h \in Hours :
            LET row == dictSchedule[key].schedule[h]
            IN  /\ \A e \in EndUses : NonNeg(row.DG[e])
                /\ \A c \in Cols : NonNeg(row.FC[c])

\* C3: after stage 19, a column whose efficiency is 0 holds 0 at every hour,
\* whatever the demand and the share are (the quotient by 0 is never taken:
\* no infinite or NaN consumption, no division error).
C3_ZeroEfficiencyGivesZero ==
    AfterS19 =>
        \A key \in DOMAIN dictSchedule :
            LET csv == CsvOf(key)
            IN  \A c \in Cols :
                  IsZero(csv.eff[c]) =>
                      \A h \in Hours :
                          dictSchedule[key].schedule[h].FC[c] = Z(0)

\* A building has a column of efficiency 0 with a positive share and a
\* positive demand at some hour, and stage 19 has written its consumption.
C3_Witness ==
    /\ AfterS19
    /\ \E key \in DOMAIN dictSchedule : \E c \in Cols : \E h \in Hours :
          /\ IsZero(CsvOf(key).eff[c])
          /\ NLt(Z(0), CsvOf(key).share[c])
          /\ NLt(Z(0), dictSchedule[key].schedule[h].DG[FCColumns[c].enduse])
          /\ dictSchedule[key].schedule[h].FC[c] = Z(0)

\* C4: in the hourly table of an archetype, Electricity[h] is the sum over
\* the archetype's buildings of their electricity FC columns at hour h minus
\* the archetype's PV production / 1000, subtracted once.
C4_SolarSubtractedOnce ==
    pc = "format" =>
        \A a \in SeqToSet(BUILDING_USES) : \A h \in Hours :
            LET rows == RowsInOrder(dfCSV, a, 1)
                fc(i) == dictSchedule[dfCSV[i].BuildingID].schedule[h].FC
            IN  rows # <<>> =>
                  dictHourlyResults[a].rows[h].value["Electricity"] =
                      NSub(SumOver([i \in 1..Len(dfCSV) |->
                                      SumCols(fc(i),
                                              ColumnsOfBucket[BucketIndex("Electricity")])],
                                   rows),
                           Kilo(dfSolarResults[a][h]))

\* Stages 21 and 22 add each FC column into the bucket (and the end use) that
\* its name carries, and into no other.
SourcesFollowNames ==
    \A c \in Cols : \A b \in BucketSet :
        /\ c \in HourlySources(b) <=> FCColumns[c].bucket = b
        /\ \A g \in ConsolidatedGroups :
              c \in ConsolidatedSources(b, g) <=>
                  /\ FCColumns[c].bucket = b
                  /\ FCColumns[c].enduse =
                        (IF g = "Water Heating" THEN "Water heating" ELSE g)

\* C5: every FC column is added into exactly one hourly bucket and one
\* consolidated column, the ones its name carries; so for an archetype with
\* one building each hourly bucket and each consolidated column equals, hour
\* by hour, the sum of that building's FC columns of the bucket (and end use),
\* the Electricity bucket less the PV production.
C5_OneBuildingConservation ==
    /\ SourcesFollowNames
    /\ pc = "format" =>
          \A a \in SeqToSet(BUILDING_USES) :
              LET rows == UseRows(dfCSV, a, 1)
              IN  Len(rows) = 1 =>
                    \A h \in Hours : \A j \in 1..Len(Buckets) :
                      LET b == Buckets[j]
                          fc == dictSchedule[dfCSV[rows[1]].BuildingID]
                                    .schedule[h].FC
                          own == SumCols(fc, ColumnsOfBucket[j])
                      IN  /\ dictHourlyResults[a].rows[h].value[b] =
                                (IF b = "Electricity"
                                 THEN NSub(own, Kilo(dfSolarResults[a][h]))
                                 ELSE own)
                          /\ NSum([k \in 1..6 |->
                                     dictConsolidated[a].rows[h]
                                        .value[<<"Space Heating", "Space Cooling",
                                                 "Water Heating", "Lighting",
                                                 "Appliances", "Cooking">>[k]][b]],
                                  6) = own

\* Offices has one building, whose consumption reaches two buckets through
\* several columns, and stages 21 and 22 have rolled it up.
C5_Witness ==
    /\ pc = "format"
    /\ Len(UseRows(dfCSV, "Offices", 1)) = 1
    /\ \E h \in Hours :
          /\ NLt(Z(0), dictHourlyResults["Offices"].rows[h].value["Gases|Gas"])
          /\ NLt(Z(0), dictHourlyResults["Offices"].rows[h].value["Heat|Solar"])
          /\ NLt(Z(0), dictConsolidated["Offices"].rows[h]
                          .value["Water Heating"]["Gases|Gas"])

\* C6: a run in which a stage failed never completes normally: the failure
\* reaches the caller as a raised exception.
C6_FailureRaisesToCaller == ~(pc = "done" /\ error # "")

\* The window-filtered records of the requested archetype.
Filtered ==
    FilterWindow(WithTimestamps(output[request.buildingUse]),
                 ParseCommandTime(request.startTime),
                 ParseCommandTime(request.endTime))

HasNegative(rows) ==
    \E i \in 1..Len(rows) :
        \/ \E b \in BucketSet : NLt(rows[i].value[b], Z(0))
        \/ NLt(rows[i].VariableCost, Z(0))
        \/ NLt(rows[i].Emissions, Z(0))

\* C7: when the window-filtered table of the requested archetype holds a
\* negative value, the output validation reports it and the table is not
\* handed back; a table that is handed back holds no negative value.
C7_NegativeTableNeverDelivered ==
    /\ (pc = "done" /\ request # NoRequest /\ HasNegative(Filtered)) =>
          /\ error = "The output contains negative values!"
          /\ result = None
    /\ (pc = "done" /\ result.kind = "dict") =>
          \A i \in 1..Len(result.dict.Datetime) :
              /\ \A b \in BucketSet : ~NLt(result.dict.value[b][i], Z(0))
              /\ ~NLt(result.dict.VariableCost[i], Z(0))
              /\ ~NLt(result.dict.Emissions[i], Z(0))

\* A run ended after the filtered table held a negative Electricity value.
C7_Witness ==
    /\ pc = "done"
    /\ request # NoRequest
    /\ \E i \in 1..Len(Filtered) : NLt(Filtered[i].value["Electricity"], Z(0))
    /\ error = "The output contains negative values!"
    /\ result = None

-----------------------------------------------------------------------------
(* The output filter on a calendar of hours (specification SpecWindow) *)

\* Rows of the formatted table of a call (8,760 in the program).
WindowHours == 48

\* First calendar hour of the table, counted from 1 January 2019 00:00:
\* 1 March 00:00 and 28 February 12:00.
CalendarStarts == {(31 + 28) * 24, (31 + 27) * 24 + 12}

\* Row of the table that holds a negative value; 0 for none.
NegativeRows == {0, 2, 20}

\* The export record formatHourlyResults writes for calendar hour k.
ExportRecord(k, negative) ==
    [ Datetime     |-> FormatIso(ParseCalendarText(CalendarText(2019, k))),
      value        |-> [b \in BucketSet |->
                          IF negative /\ b = "Electricity" THEN Q(-1, 2)
                          ELSE Z(k % 5)],
      VariableCost |-> Z(k % 3),
      Emissions    |-> Z(0) ]

CalendarOutput(first, neg) ==
    [a \in SeqToSet(BUILDING_USES) |->
        [i \in 1..WindowHours |-> ExportRecord(first + i - 1, i = neg)]]

\* Command-line times <<Y, m, d, H, M, S>>.
CalendarTimes ==
    { <<2019, 2, 28, 0, 0, 0>>, <<2019, 2, 28, 23, 30, 0>>,
      <<2019, 3, 1, 0, 0, 0>>, <<2019, 3, 1, 13, 0, 0>>,
      <<2019, 3, 2, 13, 0, 0>>, <<2019, 3, 2, 13, 0, 1>>,
      <<2019, 3, 3, 5, 0, 0>> }

InitWindow ==
    /\ pc = "return"
    /\ output \in {CalendarOutput(f, n) : f \in CalendarStarts,
                                          n \in NegativeRows}
    /\ dfCSV = <<>>
    /\ dfTemperatures = <<>>
    /\ dfSchedule = <<>>
    /\ dfSolarResults = <<>>
    /\ dictSchedule = <<>>
    /\ dictConsolidated = <<>>
    /\ dictHourlyResults = <<>>
    /\ request = NoRequest
    /\ result = Pending
    /\ error = ""
    /\ frames = <<>>
    /\ payload = Idle
    /\ verdict = Idle
    /\ weather = Idle

ExecReturnWindow == Return(CalendarTimes \X CalendarTimes, {"Offices"})

NextWindow ==
    \/ ExecReturnWindow
    \/ ExecExcept

SpecWindow == InitWindow /\ [][NextWindow]_vars

\* C8: the dict handed back holds exactly the records of the requested
\* archetype whose Datetime is within [start, end], both ends included, in
\* the table's order, which is ascending; for the window
\* [2019-03-01T13:00:00, 2019-03-02T13:00:00] on a table that covers it,
\* that is 25 rows.
C8_WindowInclusiveAscending ==
    (pc = "done" /\ result.kind = "dict") =>
        LET table == output[request.buildingUse]
            start == request.startTime
            end == request.endTime
            ts(i) == LET t == table[i].Datetime
                     IN  <<t[1], t[2], t[3], t[4], t[5], 0>>
            keep == {i \in 1..Len(table) :
                        TimestampLe(start, ts(i)) /\ TimestampLe(ts(i), end)}
            d == result.dict
            n == Len(d.Datetime)
        IN  /\ n = Cardinality(keep)
            /\ \A i \in keep :
                  LET k == Cardinality({j \in keep : j <= i})
                  IN  /\ d.Datetime[k] = ts(i)
                      /\ \A b \in BucketSet : d.value[b][k] = table[i].value[b]
                      /\ d.VariableCost[k] = table[i].VariableCost
                      /\ d.Emissions[k] = table[i].Emissions
            /\ \A k \in 1..(n - 1) :
                  /\ d.Datetime[k] # d.Datetime[k + 1]
                  /\ TimestampLe(d.Datetime[k], d.Datetime[k + 1])
            /\ ( /\ start = <<2019, 3, 1, 13, 0, 0>>
                 /\ end = <<2019, 3, 2, 13, 0, 0>>
                 /\ TimestampLe(ts(1), start)
                 /\ TimestampLe(end, ts(Len(table))) ) => n = 25

\* The call for [2019-03-01T13:00:00, 2019-03-02T13:00:00] on Offices has
\* handed back 25 rows, the first at 13:00 on 1 March and the last at 13:00
\* on 2 March.
C8_Witness ==
    /\ pc = "done"
    /\ result.kind = "dict"
    /\ request.startTime = <<2019, 3, 1, 13, 0, 0>>
    /\ request.endTime = <<2019, 3, 2, 13, 0, 0>>
    /\ Len(result.dict.Datetime) = 25
    /\ result.dict.Datetime[1] = <<2019, 3, 1, 13, 0, 0>>
    /\ result.dict.Datetime[25] = <<2019, 3, 2, 13, 0, 0>>

-----------------------------------------------------------------------------
(* validateProcessPayload: the equipment shares of the measures *)
(* (specification SpecValidator)                                 *)

\* Measures in each of the lists active_measures, active_measures_baseline.
MaxMeasures == 1

\* The end uses whose shares the validator sums, in the order it checks them,
\* with the number of energy systems it adds up for each.
SummedEndUses ==
    << [name |-> "space_heating", systems |-> 13],
       [name |-> "space_cooling", systems |-> 2],
       [name |-> "water_heating", systems |-> 13],
       [name |-> "cooking", systems |-> 5],
       [name |-> "lighting", systems |-> 1],
       [name |-> "appliances", systems |-> 1] >>

\* The factor 1.0e+04 of the 4-decimal floor.
Scale4 == 10000

\* Shares are written in hundred-thousandths: One is the share 1.
One == 10 * Scale4

\* The shares of one end use: all on the first system, except `delta` more
\* on it; with two systems or more, half of it moved to the second.
Shares(systems, delta, split) ==
    [k \in 1..systems |->
        IF split /\ systems > 1
        THEN (IF k = 1 THEN One \div 2 + delta
              ELSE IF k = 2 THEN One \div 2 ELSE 0)
        ELSE (IF k = 1 THEN One + delta ELSE 0)]

\* An entry of the lists: every end use sums to 1 except `odd`, whose sum is
\* 1 + delta hundred-thousandths.
Measure(udd, odd, delta, split) ==
    [ user_defined_data |-> udd,
      shares |-> [k \in 1..Len(SummedEndUses) |->
                    Shares(SummedEndUses[k].systems,
                           IF k = odd THEN delta ELSE 0, split)] ]

Measures ==
    {Measure(TRUE, k, -1, TRUE) : k \in 1..Len(SummedEndUses)}
    \cup {Measure(TRUE, 1, d, s) : d \in {0, 1, -10}, s \in BOOLEAN}
    \cup {Measure(TRUE, 2, 10, TRUE)}
    \cup {Measure(FALSE, 1, d, FALSE) : d \in {0, -1, 1}}

MeasureLists == UNION {[1..n -> Measures] : n \in 1..MaxMeasures}

RECURSIVE SumSeq(_, _)
SumSeq(q, k) == IF k = 0 THEN 0 ELSE SumSeq(q, k - 1) + q[k]

\* A check that rounds the sum to 4 decimals.
Round4(sum) == (sum + 5) \div 10

\* math.floor(sum * 1.0e+04) of a sum of shares, each within [0, 1].
Floor4(sum) == sum \div 10

\* The validation of one entry: the limits of every share, then, for a
\* user-defined entry, the sum of each end use.
validateMeasure(m) ==
    IF \E k \in 1..Len(SummedEndUses) :
          \E j \in 1..SummedEndUses[k].systems :
              ~(0 <= m.shares[k][j] /\ m.shares[k][j] <= One)
    THEN "Exception: invalid value (0 - 1)"
    ELSE IF m.user_defined_data
            /\ \E k \in 1..Len(SummedEndUses) :
                  Floor4(SumSeq(m.shares[k], SummedEndUses[k].systems))
                      # Scale4
    THEN "ValueError: must add up to 1"
    ELSE ""

RECURSIVE validateList(_, _)
\* for measure in list: the first failure ends the validation.
validateList(q, i) ==
    IF i > Len(q) THEN ""
    ELSE IF validateMeasure(q[i]) # "" THEN validateMeasure(q[i])
    ELSE validateList(q, i + 1)

\* validateProcessPayload as far as the two lists of measures go.
validateProcessPayload(p) ==
    IF validateList(p.active_measures, 1) # ""
    THEN validateList(p.active_measures, 1)
    ELSE validateList(p.active_measures_baseline, 1)

InitValidator ==
    /\ pc = "validate"
    /\ payload \in [active_measures : MeasureLists,
                    active_measures_baseline : MeasureLists]
    /\ verdict = Idle
    /\ weather = Idle
    /\ dfCSV = <<>>
    /\ dfTemperatures = <<>>
    /\ dfSchedule = <<>>
    /\ dfSolarResults = <<>>
    /\ dictSchedule = <<>>
    /\ dictConsolidated = <<>>
    /\ dictHourlyResults = <<>>
    /\ output = <<>>
    /\ request = NoRequest
    /\ result = Pending
    /\ error = ""
    /\ frames = <<>>

ExecValidatePayload ==
    /\ pc = "validate"
    /\ verdict' = (IF validateProcessPayload(payload) = "" THEN "accepted"
                   ELSE validateProcessPayload(payload))
    /\ pc' = "validated"
    /\ UNCHANGED <<engineVars, payload, weather>>

NextValidator == ExecValidatePayload

SpecValidator == InitValidator /\ [][NextValidator]_vars

\* An entry of either list is user-defined and one of its end uses has a
\* share sum that, cut to 4 decimals, is not 1.
BadShareSum(p) ==
    \E q \in {p.active_measures, p.active_measures_baseline} :
        \E i \in 1..Len(q) :
            /\ q[i].user_defined_data
            /\ \E k \in 1..Len(SummedEndUses) :
                  LET sum == SumSeq(q[i].shares[k], SummedEndUses[k].systems)
                  IN  sum < One \/ sum >= One + 10

\* C9: a payload in which some user-defined entry of active_measures or of
\* active_measures_baseline has an end use whose share sum floored to 4
\* decimals is not 1 is never accepted: validateProcessPayload raises.
C9_BadShareSumRaises ==
    (pc = "validated" /\ BadShareSum(payload)) => verdict # "accepted"

\* The validator has raised on a payload whose only fault is a share sum of
\* 0.99999 in a user-defined entry of the baseline list.
C9_Witness ==
    /\ pc = "validated"
    /\ verdict = "ValueError: must add up to 1"
    /\ validateList(payload.active_measures, 1) = ""
    /\ \E i \in 1..Len(payload.active_measures_baseline) :
          LET m == payload.active_measures_baseline[i]
          IN  /\ m.user_defined_data
              /\ \E k \in 1..Len(SummedEndUses) :
                    SumSeq(m.shares[k], SummedEndUses[k].systems) = One - 1

-----------------------------------------------------------------------------
(* s02RetrieveTemperatures: the rows of the temperature series *)
(* (specification SpecWeather)                                  *)

\* The hours of year y as <<Y, m, d, H>>.
HoursOfYear(y) ==
    {<<y, md[1], md[2], H>> :
        md \in {x \in (1..12) \X (1..31) : x[2] <= DaysInMonth(y, x[1])},
        H \in 0..23}

Max(S) == CHOOSE m \in S : \A o \in S : o <= m

\* The Feb-29 drop that drops nothing.
KeepFeb29(index) == index

\* x03DropFeb29IfPresentForTemperaturesData
x03DropFeb29IfPresentForTemperaturesData(index) ==
    {t \in index : ~(t[2] = 2 /\ t[3] = 29)}

\* x05RemapYear: the same month, day and hour in the target year.
x05RemapYear(index, targetYear) ==
    {<<targetYear, t[2], t[3], t[4]>> : t \in index}

\* x01AddFeb29IfMissingForTemperaturesData
x01AddFeb29IfMissingForTemperaturesData(index, targetYear) ==
    IF ~isleap(targetYear) THEN index
    ELSE IF \E t \in index : t[2] = 2 /\ t[3] = 29 THEN index
    ELSE IF ~({<<targetYear, 2, 28, H>> : H \in 0..23} \subseteq index)
    THEN index
    ELSE index \cup {<<targetYear, 2, 29, H>> : H \in 0..23}

\* The source year of the temperatures: srcYear of s02RetrieveTemperatures.
SourceYearTemperatures(available, year) ==
    IF year <= Max(available) THEN year ELSE Max(available)

\* The source year of the radiation: srcYear of s03RetrieveRadiationValues.
SourceYearRadiation(available, year) ==
    IF year <= Max(available) THEN year ELSE Min(available)

\* s02RetrieveTemperatures from the download on: `available` are the years
\* of the downloaded file, each complete, `nan` the hours whose temperature
\* is not a number.  The stage ends with the index of the series, or with
\* the ValueError of giving the daily averages (one per <<month, day>> of
\* the series) an index of one entry per day of the target year.
s02RetrieveTemperatures(available, nan, year) ==
    LET srcYear == SourceYearTemperatures(available, year)
        src == IF srcYear \in available THEN HoursOfYear(srcYear) ELSE {}
        clean == x03DropFeb29IfPresentForTemperaturesData(src) \ nan
        df == IF year # srcYear
              THEN LET remapped == x05RemapYear(clean, year)
                   IN  IF isleap(year)
                       THEN x01AddFeb29IfMissingForTemperaturesData(remapped,
                                                                    year)
                       ELSE remapped
              ELSE clean
        days == {<<t[2], t[3]>> : t \in df}
    IN  IF Cardinality(days) # (IF isleap(year) THEN 366 ELSE 365)
        THEN [raised |-> "ValueError", index |-> {}]
        ELSE [raised |-> "", index |-> df]

\* x04DropFeb29IfPresentForRadiationData
x04DropFeb29IfPresentForRadiationData(index) ==
    {t \in index : ~(t[2] = 2 /\ t[3] = 29)}

\* x02AddFeb29IfMissingForRadiationData
x02AddFeb29IfMissingForRadiationData(index, targetYear) ==
    IF ~isleap(targetYear) THEN index
    ELSE IF \E t \in index : t[2] = 2 /\ t[3] = 29 THEN index
    ELSE IF ~({<<targetYear, 2, 28, H>> : H \in 0..23} \subseteq index)
    THEN index
    ELSE index \cup {<<targetYear, 2, 29, H>> : H \in 0..23}

\* s03RetrieveRadiationValues from the download on: the index of the series
\* it saves.
s03RetrieveRadiationValues(available, nan, year) ==
    LET srcYear == SourceYearRadiation(available, year)
        src == IF srcYear \in available THEN HoursOfYear(srcYear) ELSE {}
        clean == x04DropFeb29IfPresentForRadiationData(src \ nan)
    IN  IF year # srcYear
        THEN LET remapped == x05RemapYear(clean, year)
             IN  IF isleap(year)
                 THEN x02AddFeb29IfMissingForRadiationData(remapped, year)
                 ELSE remapped
        ELSE clean

\* Downloaded files: the years lo..hi.
Downloads == {lo..hi : lo \in 2018..2021, hi \in 2019..2021} \ {{}}

TargetYears == 2018..2025

\* Hours of the download whose temperature is not a number.
Gaps(available) ==
    {{}, {<<y, 2, 28, 7>> : y \in available}}

InitWeather ==
    /\ pc = "s02"
    /\ \E av \in Downloads, year \in TargetYears :
          \E nan \in Gaps(av) :
                weather = [available |-> av, nan |-> nan, year |-> year,
                           srcYear |-> 0, raised |-> "", index |-> {},
                           radSrcYear |-> 0, radIndex |-> {}]
    /\ payload = Idle
    /\ verdict = Idle
    /\ dfCSV = <<>>
    /\ dfTemperatures = <<>>
    /\ dfSchedule = <<>>
    /\ dfSolarResults = <<>>
    /\ dictSchedule = <<>>
    /\ dictConsolidated = <<>>
    /\ dictHourlyResults = <<>>
    /\ output = <<>>
    /\ request = NoRequest
    /\ result = Pending
    /\ error = ""
    /\ frames = <<>>

ExecRetrieveTemperatures ==
    /\ pc = "s02"
    /\ LET r == s02RetrieveTemperatures(weather.available, weather.nan,
                                        weather.year)
       IN  weather' = [weather EXCEPT
                          !.srcYear = SourceYearTemperatures(weather.available,
                                                             weather.year),
                          !.raised = r.raised, !.index = r.index]
    /\ pc' = "s03"
    /\ UNCHANGED <<engineVars, payload, verdict>>

\* executeModel calls s03RetrieveRadiationValues when stage 2 has not raised.
ExecRetrieveRadiation ==
    /\ pc = "s03"
    /\ weather.raised = ""
    /\ weather' = [weather EXCEPT
                      !.radSrcYear = SourceYearRadiation(weather.available,
                                                         weather.year),
                      !.radIndex = s03RetrieveRadiationValues(
                                      weather.available, weather.nan,
                                      weather.year)]
    /\ pc' = "s04"
    /\ UNCHANGED <<engineVars, payload, verdict>>

NextWeather ==
    \/ ExecRetrieveTemperatures
    \/ ExecRetrieveRadiation

SpecWeather == InitWeather /\ [][NextWeather]_vars

\* C10: for every target year and every download (here: complete years, no
\* temperature missing), stage 2 ends with a series that has exactly one row
\* for each hour of the target year (8,760 rows, or 8,784 in a leap year),
\* the source year being the target year or not.
C10_OneRowPerHourOfTargetYear ==
    (pc = "s03" /\ weather.nan = {} /\ weather.year >= Min(weather.available)) =>
        /\ weather.raised = ""
        /\ weather.index = HoursOfYear(weather.year)
        /\ Cardinality(weather.index) =
              (IF isleap(weather.year) THEN 8784 ELSE 8760)

\* C11: once a source year has been selected, for the temperatures and for
\* the radiation, it is a year of the downloaded data: the target year when
\* the download has it, the latest or the earliest year otherwise.
C11_SourceYearIsAvailable ==
    /\ pc \in {"s03", "s04"} =>
          /\ weather.srcYear \in weather.available
          /\ weather.year \in weather.available =>
                weather.srcYear = weather.year
    /\ pc = "s04" =>
          /\ weather.radSrcYear \in weather.available
          /\ weather.year \in weather.available =>
                weather.radSrcYear = weather.year
-----------------------------------------------------------------------------
(* The leap-year round trip of a temperature series                        *)
(* (specification SpecRoundTrip)                                           *)

\* The source years, the leap target years and the years to come back to.
SourceYears == {2018, 2019, 2021}
LeapYears == {2020, 2024}
BackYears == {2019, 2023}

\* Hourly temperatures of a source series: a value for each month, day, hour.
Patterns == {<<1, 0, 0>>, <<0, 1, 0>>, <<3, 5, 1>>}

SourceSeries(y, p) ==
    [t \in HoursOfYear(y) |-> (p[1] * t[2] + p[2] * t[3] + p[3] * t[4]) % 7]

\* src.index = x05RemapYear(src.index, year): the rows keep their values and
\* their order, and take the remapped timestamps.
AssignRemappedIndex(series, year) ==
    LET from == (CHOOSE t \in DOMAIN series : TRUE)[1]
    IN  [t \in x05RemapYear(DOMAIN series, year) |->
            series[<<from, t[2], t[3], t[4]>>]]

\* x03DropFeb29IfPresentForTemperaturesData on the rows of a series.
DropFeb29Rows(series) ==
    [t \in x03DropFeb29IfPresentForTemperaturesData(DOMAIN series) |->
        series[t]]

\* x01AddFeb29IfMissingForTemperaturesData on the rows of a series: the rows
\* of 29 February are copies of the rows of 28 February.
AddFeb29Rows(series, year) ==
    [t \in x01AddFeb29IfMissingForTemperaturesData(DOMAIN series, year) |->
        IF t \in DOMAIN series THEN series[t]
        ELSE series[<<year, 2, 28, t[4]>>]]

InitRoundTrip ==
    /\ pc = "toLeap"
    /\ \E y \in SourceYears, l \in LeapYears, b \in BackYears, p \in Patterns :
          LET src == SourceSeries(y, p)
          IN  weather = [original |-> src, series |-> src,
                         leap |-> l, back |-> b, leapRows |-> 0]
    /\ payload = Idle
    /\ verdict = Idle
    /\ dfCSV = <<>>
    /\ dfTemperatures = <<>>
    /\ dfSchedule = <<>>
    /\ dfSolarResults = <<>>
    /\ dictSchedule = <<>>
    /\ dictConsolidated = <<>>
    /\ dictHourlyResults = <<>>
    /\ output = <<>>
    /\ request = NoRequest
    /\ result = Pending
    /\ error = ""
    /\ frames = <<>>

\* The remap of s02RetrieveTemperatures towards a leap target year.
RemapToLeap ==
    /\ pc = "toLeap"
    /\ LET out == AddFeb29Rows(AssignRemappedIndex(weather.series, weather.leap),
                               weather.leap)
       IN  weather' = [weather EXCEPT !.series = out,
                                      !.leapRows = Cardinality(DOMAIN out)]
    /\ pc' = "toBack"
    /\ UNCHANGED <<engineVars, payload, verdict>>

\* The Feb-29 drop and the remap of s02RetrieveTemperatures towards a
\* non-leap target year.
RemapBack ==
    /\ pc = "toBack"
    /\ weather' = [weather EXCEPT !.series =
                      AssignRemappedIndex(DropFeb29Rows(weather.series),
                                          weather.back)]
    /\ pc' = "end"
    /\ UNCHANGED <<engineVars, payload, verdict>>

NextRoundTrip ==
    \/ RemapToLeap
    \/ RemapBack

SpecRoundTrip == InitRoundTrip /\ [][NextRoundTrip]_vars

\* C12: a series of the 8,760 hours of a non-leap year, remapped to a leap
\* year (8,784 rows) and back to a non-leap year, has again 8,760 rows, one
\* for each hour of that year, each with the value the original series has
\* at the same month, day and hour.
C12_LeapYearRoundTrip ==
    pc = "end" =>
        /\ Cardinality(DOMAIN weather.series) = 8760
        /\ DOMAIN weather.series = HoursOfYear(weather.back)
        /\ \A t \in DOMAIN weather.original :
              weather.series[<<weather.back, t[2], t[3], t[4]>>] =
                  weather.original[t]

\* A round trip has ended whose leap-year series had 8,784 rows and whose
\* source temperatures differ between 28 February and 1 March.
C12_Witness ==
    /\ pc = "end"
    /\ weather.leapRows = 8784
    /\ Cardinality(DOMAIN weather.series) = 8760
    /\ \E t \in DOMAIN weather.original :
          /\ t[2] = 2 /\ t[3] = 28
          /\ weather.original[t] # weather.original[<<t[1], 3, 1, t[4]>>]
-----------------------------------------------------------------------------
(* Flat degree hours *)

\* The schedule table was loaded with hdd_reduction = cdd_reduction = 0.
ZeroReductions ==
    \E prof \in {sc[1] : sc \in Scenarios} :
        dfSchedule = s04LoadDatabase(dfTemperatures, prof, Z(0), Z(0))

\* The buildings that are the only one of the Offices archetype and whose
\* HDH and CDH are 0 at every hour.
FlatOffices ==
    {key \in DOMAIN dictSchedule :
        /\ dictSchedule[key].use = "Offices"
        /\ Cardinality({i \in 1..Len(dfCSV) : dfCSV[i].Use = "Offices"}) = 1
        /\ \A h \in Hours : /\ dictSchedule[key].base[h].HDH = Z(0)
                            /\ dictSchedule[key].base[h].CDH = Z(0)}

\* 1000 times the internal and solar gains [kWh] of a building at hour h.
GainsOf(csv, S, h) ==
    NAdd(NAdd(NAdd(NMul(csv.IGLiFactor, S[h].Lighting),
                   NMul(csv.IGEqFactor, S[h].Equipment)),
              NMul(csv.IGOcFactor, S[h].Occupancy)),
         NMul(csv.WindowArea, S[h].Solar))

-----------------------------------------------------------------------------
(* The degree hours of one temperature row (specification SpecDegreeHours) *)

\* Hourly temperatures and daily averages of the rows, in degrees.
HourlyTemps == {Z(t) : t \in -2..30}

DailyAvgs == {Z(10), Z(14), Z(15), Z(16), Z(20), Z(21), Z(22), Q(53, 2)}

\* hdd_reduction and cdd_reduction values that validateProcessPayload accepts.
Reductions == {Z(-1), Q(-1, 2), Z(0), Q(1, 2), Z(1)}

InitDegreeHours ==
    /\ pc = "iterrows"
    /\ \E t \in HourlyTemps, avg \in DailyAvgs, hdd \in Reductions,
          cdd \in Reductions :
          weather = [HourlyTemperature |-> t, DailyAvgTemp |-> avg,
                     hddReduction |-> hdd, cddReduction |-> cdd,
                     values |-> <<Z(0), Z(0)>>, HDH |-> NaN, CDH |-> NaN]
    /\ payload = Idle
    /\ verdict = Idle
    /\ dfCSV = <<>>
    /\ dfTemperatures = <<>>
    /\ dfSchedule = <<>>
    /\ dfSolarResults = <<>>
    /\ dictSchedule = <<>>
    /\ dictConsolidated = <<>>
    /\ dictHourlyResults = <<>>
    /\ output = <<>>
    /\ request = NoRequest
    /\ result = Pending
    /\ error = ""
    /\ frames = <<>>

\* One pass of the loop "for index, row in dfTemperatures.iterrows()".
ExecDegreeHours ==
    /\ pc = "iterrows"
    /\ LET values == <<RawHDH(weather), RawCDH(weather)>>
       IN  weather' = [weather EXCEPT
                          !.values = values,
                          !.HDH = ScaledDegreeHours(values[1],
                                                    weather.hddReduction),
                          !.CDH = ScaledDegreeHours(values[2],
                                                    weather.cddReduction)]
    /\ pc' = "stored"
    /\ UNCHANGED <<engineVars, payload, verdict>>

NextDegreeHours == ExecDegreeHours

SpecDegreeHours == InitDegreeHours /\ [][NextDegreeHours]_vars

NMax(a, b) == IF NLt(a, b) THEN b ELSE a

\* C14: the unscaled heating value of a row is max(0, baseHeatingTemp -
\* hourlyTemp), or 0 when the daily average exceeds the heating threshold;
\* the unscaled cooling value is max(0, hourlyTemp - baseCoolingTemp), or 0
\* when the daily average is below the cooling threshold (at the cooling
\* threshold itself either of the two).
C14_DegreeHoursGate ==
    pc = "stored" =>
        LET heat == dfBaseTemperatures[1]
            cool == dfBaseTemperatures[2]
            t == weather.HourlyTemperature
            avg == weather.DailyAvgTemp
        IN  /\ weather.values[1] =
                  IF NLt(heat.ThresholdTemperture, avg) THEN Z(0)
                  ELSE NMax(Z(0), NSub(heat.BaseTemperature, t))
            /\ IF NLt(avg, cool.ThresholdTemperture)
               THEN weather.values[2] = Z(0)
               ELSE IF NLt(cool.ThresholdTemperture, avg)
               THEN weather.values[2] =
                        NMax(Z(0), NSub(t, cool.BaseTemperature))
               ELSE weather.values[2] \in
                        {Z(0), NMax(Z(0), NSub(t, cool.BaseTemperature))}

\* C15: the stored HDH is the unscaled heating value minus its hdd_reduction
\* share, the stored CDH the unscaled cooling value minus its cdd_reduction
\* share; with a reduction of 0 they are the unscaled values, and they are
\* never negative for reductions from -1 to 1.
C15_DegreeHoursScaling ==
    pc = "stored" =>
        /\ weather.HDH = NSub(weather.values[1],
                              NMul(weather.values[1], weather.hddReduction))
        /\ weather.CDH = NSub(weather.values[2],
                              NMul(weather.values[2], weather.cddReduction))
        /\ IsZero(weather.hddReduction) => weather.HDH = weather.values[1]
        /\ IsZero(weather.cddReduction) => weather.CDH = weather.values[2]
        /\ NonNeg(weather.HDH)
        /\ NonNeg(weather.CDH)

\* A row with a positive unscaled heating value has been stored with a
\* heating reduction that shrinks it and a cooling reduction of 0.
C15_Witness ==
    /\ pc = "stored"
    /\ NLt(Z(0), weather.HDH) /\ NLt(weather.HDH, weather.values[1])
    /\ IsZero(weather.cddReduction)
    /\ weather.CDH = weather.values[2]
-----------------------------------------------------------------------------
(* Stage 10: U-values and internal gains (specification SpecEnvelope) *)

Sectors == {"Residential", "Service"}

Periods == {"Pre-1945", "Post-2010"}

\* 22-UValues.csv for the country: base U-values [W/m2K] by sector and period.
dfUValues ==
    [sec \in Sectors |-> [per \in Periods |->
        IF per = "Pre-1945"
        THEN [Roof |-> Q(3, 2), Wall |-> Z(2),
              Window |-> IF sec = "Residential" THEN Z(5) ELSE Z(4)]
        ELSE [Roof |-> Q(1, 4), Wall |-> Q(1, 3), Window |-> Q(3, 2)]]]

\* 17-RetrofittingUValues.csv by level: the resistance added to the roof and
\* to the wall [m2K/W] and the U-value of the new windows.
dfRUValues ==
    [ High   |-> <<Z(4), Z(3), Q(4, 5)>>,
      Medium |-> <<Z(2), Q(3, 2), Q(6, 5)>>,
      Low    |-> <<Z(1), Q(1, 2), Q(9, 5)>> ]

\* 01-ACH.csv for the country, by period.
dfACH == [per \in Periods |-> IF per = "Pre-1945" THEN Z(1) ELSE Q(1, 2)]

\* 08-DHW&InternalGains.csv by archetype.
dfDHW(use) ==
    [ Equipment |-> IF use = "Offices" THEN Z(10) ELSE Z(4),
      Occupancy |-> Z(3),
      Lighting  |-> IF use = "Offices" THEN Z(8) ELSE Z(5),
      DHW       |-> Z(20),
      Cooking   |-> IF use = "Offices" THEN Z(0) ELSE Z(6),
      WWR       |-> IF use = "Offices" THEN Q(2, 5) ELSE Q(1, 5),
      GtH       |-> IF use = "Offices" THEN Q(5, 4) ELSE Q(6, 5) ]

\* Refurbished fractions of the rows.
RefShares == {Z(0), Q(1, 2), Z(1)}

\* A row of the building table as stage 9 leaves it.
EnvelopeRow(use, period, level, ref) ==
    [ Use |-> use,
      Sector |-> IF use \in Residential THEN "Residential" ELSE "Service",
      Period |-> period, RefLevel |-> level, RefPct |-> ref,
      FootprintArea |-> Z(100), OpaqueArea |-> Z(300), WindowArea |-> Z(50),
      NHFA |-> Z(400), HeatedVolume |-> Z(1200) ]

EnvelopeRows ==
    {EnvelopeRow(u, per, lev, ref) :
        u \in FocusUses, per \in Periods, lev \in DOMAIN dfRUValues,
        ref \in RefShares}

\* The blend that forgets to remove the refurbished share from the base part.
BlendOnTop(base, retrofit, ref) == NAdd(NMul(retrofit, ref), base)

\* retrofit * Ref% + base * (1 - Ref%)
Blend(base, retrofit, ref) ==
    NAdd(NMul(retrofit, ref), NMul(base, NSub(Z(1), ref)))

\* 1 / (1 / U_base + R_retrofit)
ResistanceSum(base, resistance) ==
    NDiv(Z(1), NAdd(NDiv(Z(1), base), resistance))

Min06 == IF NLt(Q(3, 5), Q(11, 5)) THEN Q(3, 5) ELSE Q(11, 5)

\* s10WriteUValuesAndInternalGains on one row.
s10Row(row) ==
    LET ruv == dfRUValues[row.RefLevel]
        dfq == dfUValues[row.Sector][row.Period]
        roof == Blend(dfq.Roof, ResistanceSum(dfq.Roof, ruv[1]), row.RefPct)
        wall == Blend(dfq.Wall, ResistanceSum(dfq.Wall, ruv[2]), row.RefPct)
        window == Blend(dfq.Window, ruv[3], row.RefPct)
        gains == dfDHW(row.Use)
        arl == NAdd(NMul(dfACH[row.Period], NSub(Z(1), row.RefPct)),
                    NMul(Min06, row.RefPct))
    IN  [ Use |-> row.Use, Sector |-> row.Sector, Period |-> row.Period,
          RefLevel |-> row.RefLevel, RefPct |-> row.RefPct,
          FootprintArea |-> row.FootprintArea, OpaqueArea |-> row.OpaqueArea,
          WindowArea |-> row.WindowArea, NHFA |-> row.NHFA,
          HeatedVolume |-> row.HeatedVolume,
          Roof |-> roof, Wall |-> wall, Window |-> window,
          EquipmentGains |-> gains.Equipment,
          OccupancyGains |-> gains.Occupancy,
          LightingPower |-> gains.Lighting,
          DHWDemand |-> gains.DHW, CookingDemand |-> gains.Cooking,
          AirRenovationLosses |-> arl,
          DFactor |-> NAdd(NAdd(NMul(row.FootprintArea, roof),
                                NMul(row.OpaqueArea, wall)),
                           NMul(row.WindowArea, window)),
          IGLiFactor |-> NMul(gains.Lighting, row.NHFA),
          IGEqFactor |-> NMul(gains.Equipment, row.NHFA),
          IGOcFactor |-> NMul(gains.Occupancy, row.NHFA),
          ARLFactor |-> NMul(NMul(Q(33, 100), arl), row.HeatedVolume) ]

s10WriteUValuesAndInternalGains(df) == [i \in DOMAIN df |-> s10Row(df[i])]

InitEnvelope ==
    /\ pc = "s10"
    /\ \E a \in EnvelopeRows, b \in EnvelopeRows :
          /\ b.Use = "Offices"
          /\ b.RefLevel = "Medium"
          /\ dfCSV = <<a, b>>
    /\ payload = Idle
    /\ verdict = Idle
    /\ weather = Idle
    /\ dfTemperatures = <<>>
    /\ dfSchedule = <<>>
    /\ dfSolarResults = <<>>
    /\ dictSchedule = <<>>
    /\ dictConsolidated = <<>>
    /\ dictHourlyResults = <<>>
    /\ output = <<>>
    /\ request = NoRequest
    /\ result = Pending
    /\ error = ""
    /\ frames = <<>>

ExecS10 ==
    /\ pc = "s10"
    /\ dfCSV' = s10WriteUValuesAndInternalGains(dfCSV)
    /\ pc' = "s11"
    /\ UNCHANGED <<dfTemperatures, dfSchedule, dfSolarResults, dictSchedule,
                   dictConsolidated, dictHourlyResults, output, request,
                   result, error, payload, verdict, weather, frames>>

NextEnvelope == ExecS10

SpecEnvelope == InitEnvelope /\ [][NextEnvelope]_vars

\* C16: after stage 10, a row with Ref% = 0 has the base U-values of its
\* sector and period for roof, wall and window; a row with Ref% = 1 has a
\* roof and a wall whose resistance 1/U is the base resistance plus the
\* retrofit resistance of its level, and the window U-value of its level.
C16_UValueBlendBoundary ==
    pc = "s11" =>
        \A i \in DOMAIN dfCSV :
            LET row == dfCSV[i]
                dfq == dfUValues[row.Sector][row.Period]
                ruv == dfRUValues[row.RefLevel]
            IN  /\ IsZero(row.RefPct) =>
                      /\ row.Roof = dfq.Roof
                      /\ row.Wall = dfq.Wall
                      /\ row.Window = dfq.Window
                /\ row.RefPct = Z(1) =>
                      /\ NDiv(Z(1), row.Roof) = NAdd(NDiv(Z(1), dfq.Roof), ruv[1])
                      /\ NDiv(Z(1), row.Wall) = NAdd(NDiv(Z(1), dfq.Wall), ruv[2])
                      /\ row.Window = ruv[3]

\* Stage 10 has written a table with one row that is not refurbished and
\* one that is refurbished entirely.
C16_Witness ==
    /\ pc = "s11"
    /\ IsZero(dfCSV[1].RefPct)
    /\ dfCSV[2].RefPct = Z(1)
    /\ dfCSV[1].Roof # dfCSV[2].Roof
-----------------------------------------------------------------------------
(* Stage 7: input data and built-area increase (specification SpecBuiltArea) *)

\* 23-YearPeriods.csv: the period of a construction year.
dfYears(age) == IF age >= 2011 THEN "Post-2010" ELSE "Pre-1945"

\* 24-Sectors.csv: the sector of an archetype.
dfSectors(use) == IF use \in Residential THEN "Residential" ELSE "Service"

\* 09-DwellingSizeAndShare.csv, the row of the country.
dfDwellings == <<"ES", Q(3, 10), Z(90), Z(140), Q(4, 5)>>

\* A row of the building table as stage 6 leaves it.
InputRow(use, age, gfa) ==
    [ Use |-> use, Age |-> age, GrossFloorArea |-> gfa,
      NumberOfFloors |-> Z(2), Height |-> Z(6),
      FootprintArea |-> NDiv(gfa, Z(2)),
      Volume |-> NMul(NDiv(gfa, Z(2)), Z(6)),
      TotalExternalFacadeArea |-> NMul(gfa, Q(3, 4)) ]

InputRows ==
    {InputRow(u, age, gfa) :
        u \in FocusUses, age \in {1940, 2015}, gfa \in {Z(100), Z(300)}}

\* built-area increases that validateProcessPayload accepts
Increases == {Z(0), Q(1, 4)}

\* The first loop of stage 7: the derived columns of one row.
s07Derived(row) ==
    LET wwr == dfDHW(row.Use).WWR
        gth == dfDHW(row.Use).GtH
        facade == row.TotalExternalFacadeArea
    IN  [ Use |-> row.Use, Age |-> row.Age,
          GrossFloorArea |-> row.GrossFloorArea,
          NumberOfFloors |-> row.NumberOfFloors, Height |-> row.Height,
          FootprintArea |-> row.FootprintArea, Volume |-> row.Volume,
          TotalExternalFacadeArea |-> facade,
          WindowArea |-> NMul(facade, wwr),
          OpaqueArea |-> NSub(facade, NMul(facade, wwr)),
          Period |-> dfYears(row.Age),
          NHFA |-> NDiv(row.GrossFloorArea, gth),
          HeatedVolume |-> NMul(NDiv(NDiv(row.GrossFloorArea, gth),
                                     row.NumberOfFloors), row.Height),
          WallToFloorRatio |-> NDiv(facade, row.GrossFloorArea),
          Sector |-> dfSectors(row.Use) ]

RECURSIVE GfaSum(_, _, _, _)
\* gfaResTotal, gfaSrvTotal (periods = all) and gfaRes2020, gfaSrv2020
\* (periods = {"Post-2010"}): the sum over the rows 1..k.
GfaSum(df, sector, periods, k) ==
    IF k = 0 THEN Z(0)
    ELSE IF df[k].Sector = sector /\ df[k].Period \in periods
    THEN NAdd(GfaSum(df, sector, periods, k - 1), df[k].GrossFloorArea)
    ELSE GfaSum(df, sector, periods, k - 1)

\* gfa = row['Gross floor area'] / gfa2020 * gfaTotal * increase
Gain(df, row, increase) ==
    NMul(NMul(NDiv(row.GrossFloorArea,
                   GfaSum(df, row.Sector, {"Post-2010"}, Len(df))),
              GfaSum(df, row.Sector, Periods, Len(df))),
         increase)

\* The second loop of stage 7 on one row.
s07Increased(df, row, increaseRes, increaseSrv) ==
    LET increase == IF row.Sector = "Residential" THEN increaseRes
                    ELSE increaseSrv
    IN  IF ~(NLt(Z(0), increaseRes) \/ NLt(Z(0), increaseSrv)) THEN row
        ELSE IF row.Period # "Post-2010" \/ ~NLt(Z(0), increase) THEN row
        ELSE LET gfa == Gain(df, row, increase)
                 facade == NMul(gfa, row.WallToFloorRatio)
                 window == NMul(facade, dfDHW(row.Use).WWR)
                 net == NDiv(gfa, dfDHW(row.Use).GtH)
             IN  [row EXCEPT
                    !.GrossFloorArea = NAdd(@, gfa),
                    !.FootprintArea = NAdd(@, NDiv(gfa, row.NumberOfFloors)),
                    !.Volume = NAdd(@, NMul(NDiv(gfa, row.NumberOfFloors),
                                            row.Height)),
                    !.TotalExternalFacadeArea = NAdd(@, facade),
                    !.WindowArea = NAdd(@, window),
                    !.OpaqueArea = NAdd(@, NSub(facade, window)),
                    !.NHFA = NAdd(@, net),
                    !.HeatedVolume = NAdd(@, NMul(NDiv(net, row.NumberOfFloors),
                                                  row.Height))]

\* The columns of the country's dwellings row, the same for every building.
WithDwellings(row) ==
    [ k \in DOMAIN row \cup {"ShareIndividual", "AvgDwellingSize",
                             "AvgSFHSize", "OccDwellings"} |->
        CASE k = "ShareIndividual" -> dfDwellings[2]
          [] k = "AvgDwellingSize" -> dfDwellings[3]
          [] k = "AvgSFHSize" -> dfDwellings[4]
          [] k = "OccDwellings" -> dfDwellings[5]
          [] OTHER -> row[k] ]

s07AddInputDataToMainDataframe(df, increaseRes, increaseSrv) ==
    LET derived == [i \in DOMAIN df |-> s07Derived(df[i])]
    IN  [i \in DOMAIN df |->
            WithDwellings(s07Increased(derived, derived[i],
                                       increaseRes, increaseSrv))]

InitBuiltArea ==
    /\ pc = "s07"
    /\ \E a \in InputRows, b \in InputRows, c \in InputRows :
          dfCSV = <<a, b, c>>
    /\ \E res \in Increases, srv \in Increases :
          payload = [increase_residential_built_area |-> res,
                     increase_service_built_area |-> srv,
                     inventory |-> dfCSV]
    /\ verdict = Idle
    /\ weather = Idle
    /\ dfTemperatures = <<>>
    /\ dfSchedule = <<>>
    /\ dfSolarResults = <<>>
    /\ dictSchedule = <<>>
    /\ dictConsolidated = <<>>
    /\ dictHourlyResults = <<>>
    /\ output = <<>>
    /\ request = NoRequest
    /\ result = Pending
    /\ error = ""
    /\ frames = <<>>

ExecS07 ==
    /\ pc = "s07"
    /\ dfCSV' = s07AddInputDataToMainDataframe(
                    dfCSV, payload.increase_residential_built_area,
                    payload.increase_service_built_area)
    /\ pc' = "s08"
    /\ UNCHANGED <<dfTemperatures, dfSchedule, dfSolarResults, dictSchedule,
                   dictConsolidated, dictHourlyResults, output, request,
                   result, error, payload, verdict, weather, frames>>

NextBuiltArea == ExecS07

SpecBuiltArea == InitBuiltArea /\ [][NextBuiltArea]_vars

\* The increase requested for a sector.
IncreaseOf(sector) ==
    IF sector = "Residential" THEN payload.increase_residential_built_area
    ELSE payload.increase_service_built_area

\* The rows of a sector, and the gross floor area stage 7 added to a row.
RowsOfSector(sector) == {i \in DOMAIN dfCSV : dfCSV[i].Sector = sector}

AddedArea ==
    [i \in DOMAIN dfCSV |->
        NSub(dfCSV[i].GrossFloorArea, payload.inventory[i].GrossFloorArea)]

\* C17: after stage 7, for a sector with a requested increase r > 0, each
\* Post-2010 row b of the sector has gained r x (gross floor area of the
\* sector) x GFA_b / (gross floor area of the sector's Post-2010 rows), the
\* area added over the sector is r x the gross floor area of the sector, and
\* every other row has the geometry stage 7 derives without an increase.
C17_BuiltAreaIncrease ==
    pc = "s08" =>
        \A sector \in Sectors :
            LET r == IncreaseOf(sector)
                in == [i \in DOMAIN dfCSV |-> s07Derived(payload.inventory[i])]
                total == GfaSum(in, sector, Periods, Len(in))
                total2010 == GfaSum(in, sector, {"Post-2010"}, Len(in))
            IN  /\ NLt(Z(0), r) =>
                      /\ \A i \in RowsOfSector(sector) :
                            dfCSV[i].Period = "Post-2010" =>
                                NMul(AddedArea[i], total2010) =
                                    NMul(NMul(r, total), in[i].GrossFloorArea)
                      /\ NSum([i \in DOMAIN dfCSV |->
                                  IF i \in RowsOfSector(sector)
                                  THEN AddedArea[i] ELSE Z(0)],
                              Len(dfCSV)) = NMul(r, total)
                /\ \A i \in RowsOfSector(sector) :
                      (dfCSV[i].Period # "Post-2010" \/ IsZero(r)) =>
                          dfCSV[i] = WithDwellings(in[i])
-----------------------------------------------------------------------------
(* Stage 17: the investment of each fuel switch (specification SpecCosts) *)

\* The end uses with a cost column, and the fuels followed here out of the
\* sixteen that stage 17 treats alike.
CostEndUses == {"Space heating", "Space cooling", "Water heating"}

CostFuels == {"Solids", "Natural gas", "Electricity"}

\* Fuel shares of one end use, over <<Solids, Natural gas, Electricity>>.
ShareVectors ==
    { <<Z(1), Z(0), Z(0)>>, <<Z(0), Z(1), Z(0)>>,
      <<Q(1, 2), Q(1, 2), Z(0)>>, <<Z(0), Q(1, 4), Q(3, 4)>> }

FuelIndex(f) ==
    CASE f = "Solids" -> 1 [] f = "Natural gas" -> 2 [] f = "Electricity" -> 3

\* A row of the building table as stage 16 leaves it: the scenario shares
\* are `scen` for the heating end uses and `base` for cooling, the baseline
\* shares the other way round.
CostRow(use, pct, scen, base) ==
    [ Use |-> use,
      Sector |-> IF use \in Residential THEN "Residential" ELSE "Service",
      OccDwellings |-> Q(4, 5),
      NHFA |-> Z(250),
      pct |-> [e \in CostEndUses |-> pct],
      CAPEX |-> [e \in CostEndUses |-> [f \in CostFuels |->
                    Z(100 * FuelIndex(f) + (IF e = "Space cooling" THEN 50 ELSE 0))]],
      EP |-> [e \in CostEndUses |-> [f \in CostFuels |->
                    IF e = "Space heating" /\ f = "Solids" THEN Z(0)
                    ELSE Q(FuelIndex(f), 20)]],
      share |-> [e \in CostEndUses |-> [f \in CostFuels |->
                    IF e = "Space cooling" THEN base[FuelIndex(f)]
                    ELSE scen[FuelIndex(f)]]],
      basis |-> [e \in CostEndUses |-> [f \in CostFuels |->
                    IF e = "Space cooling" THEN scen[FuelIndex(f)]
                    ELSE base[FuelIndex(f)]]] ]

CostRows ==
    {CostRow(u, pct, scen, base) :
        u \in FocusUses, pct \in {Z(1), Q(1, 2)},
        scen \in ShareVectors, base \in ShareVectors}

\* dfDwellings.loc[dfDwellings['Sector'] != 'Residential', 'Occ. Dwellings'] = 1
CostDwellings(row) ==
    IF row.Sector # "Residential" THEN Z(1) ELSE row.OccDwellings

\* val of one cost column.
CostValue(row, e, f) ==
    NDiv(NMul(NMul(NMul(NMul(NMul(row.CAPEX[e][f], row.NHFA),
                             CostDwellings(row)),
                        row.pct[e]),
                   row.EP[e][f]),
              NSub(row.share[e][f], row.basis[e][f])),
         Z(1000000))

\* The cost column that takes val as it is.
CostUnclamped(row, e, f) == CostValue(row, e, f)

\* 0 if val < 0 else val
Cost(row, e, f) ==
    IF NLt(CostValue(row, e, f), Z(0)) THEN Z(0) ELSE CostValue(row, e, f)

s17CalculateCosts(df) ==
    [i \in DOMAIN df |->
        [ k \in DOMAIN df[i] \cup {"Cost"} |->
            IF k = "Cost"
            THEN [e \in CostEndUses |-> [f \in CostFuels |-> Cost(df[i], e, f)]]
            ELSE df[i][k] ]]

InitCosts ==
    /\ pc = "s17"
    /\ \E a \in CostRows, b \in CostRows :
          /\ a.Use = "Apartment Block"
          /\ b.pct["Space heating"] = Z(1)
          /\ dfCSV = <<a, b>>
    /\ payload = Idle
    /\ verdict = Idle
    /\ weather = Idle
    /\ dfTemperatures = <<>>
    /\ dfSchedule = <<>>
    /\ dfSolarResults = <<>>
    /\ dictSchedule = <<>>
    /\ dictConsolidated = <<>>
    /\ dictHourlyResults = <<>>
    /\ output = <<>>
    /\ request = NoRequest
    /\ result = Pending
    /\ error = ""
    /\ frames = <<>>

ExecS17 ==
    /\ pc = "s17"
    /\ dfCSV' = s17CalculateCosts(dfCSV)
    /\ pc' = "s18"
    /\ UNCHANGED <<dfTemperatures, dfSchedule, dfSolarResults, dictSchedule,
                   dictConsolidated, dictHourlyResults, output, request,
                   result, error, payload, verdict, weather, frames>>

NextCosts == ExecS17

SpecCosts == InitCosts /\ [][NextCosts]_vars

\* C18: after stage 17 no cost of a building is negative, and the cost of a
\* fuel for an end use is 0 when the scenario share of the fuel is not
\* above its baseline share.
C18_CostNeverNegative ==
    pc = "s18" =>
        \A i \in DOMAIN dfCSV : \A e \in CostEndUses : \A f \in CostFuels :
            LET row == dfCSV[i]
            IN  /\ NonNeg(row.Cost[e][f])
                /\ NLe(row.share[e][f], row.basis[e][f]) =>
                      row.Cost[e][f] = Z(0)

\* Stage 17 has priced a building that moves away from one fuel of an end
\* use and towards another: the first costs nothing, the second does.
C18_Witness ==
    /\ pc = "s18"
    /\ \E i \in DOMAIN dfCSV : \E e \in CostEndUses :
          \E f \in CostFuels, g \in CostFuels :
              /\ NLt(dfCSV[i].share[e][f], dfCSV[i].basis[e][f])
              /\ NLt(Z(0), dfCSV[i].EP[e][f])
              /\ dfCSV[i].Cost[e][f] = Z(0)
              /\ NLt(dfCSV[i].basis[e][g], dfCSV[i].share[e][g])
              /\ NLt(Z(0), dfCSV[i].Cost[e][g])
-----------------------------------------------------------------------------
(* Stages 15 and 16: capacities and equivalent power (specification        *)
(* SpecPower)                                                               *)

\* 03-BES_Capacity.csv: the capacities [KW/m2] of an archetype.
dfCapacity(arch) ==
    LET k == IF arch = "Apartment Block" THEN 1 ELSE 2
    IN  [ CentralHPSH      |-> Q(3 * k, 100),
          CentralBoilerSH  |-> Q(5 * k, 100),
          IndividualBoilerSH |-> Q(12, 100),
          IndividualHPSH   |-> Q(8, 100),
          HPSC             |-> Q(7 * k, 100),
          CentralHPWH      |-> Q(2 * k, 100),
          CentralBoilerWH  |-> Q(4 * k, 100),
          IndividualBoilerWH |-> Q(11, 100),
          IndividualHPWH   |-> Q(9, 100) ]

\* s15AddCapacityDataFrame: each row gets the capacities of its archetype.
s15AddCapacityDataFrame(df) ==
    [i \in DOMAIN df |->
        [ k \in DOMAIN df[i] \cup DOMAIN dfCapacity(df[i].Use) |->
            IF k \in DOMAIN dfCapacity(df[i].Use)
            THEN dfCapacity(df[i].Use)[k] ELSE df[i][k] ]]

centralHPColumns == {"Gas heat pumps", "Advanced electric heating"}

\* Three of the thirteen centralBoilerColumns, which stage 16 treats alike.
centralBoilerColumns == {"Natural gas", "Biomass", "Electricity"}

PowerFuels == {"Solids"} \cup centralHPColumns \cup centralBoilerColumns

\* round(x, 6): the nearest multiple of 1e-6, ties to the even one.
Round6(x) ==
    LET m == x.n * 1000000
        q == m \div x.d
        r == m % x.d
        k == IF 2 * r > x.d THEN q + 1
             ELSE IF 2 * r < x.d THEN q
             ELSE IF q % 2 = 0 THEN q ELSE q + 1
    IN  IF IsFinite(x) THEN Q(k, 1000000) ELSE x

\* a * (1 - Share Individual) + b * Share Individual
ShareBlend(a, b, share) == NAdd(NMul(a, NSub(Z(1), share)), NMul(b, share))

\* s16AddEquivalentPowerDataFrame on one row: the EP. columns.
EquivalentPower(row) ==
    LET apartments == row.Use = "Apartment Block"
        share == row.ShareIndividual
        hpSH == IF apartments
                THEN ShareBlend(row.CentralHPSH, row.IndividualHPSH, share)
                ELSE row.CentralHPSH
        hpSC == row.HPSC
        hpWH == IF apartments
                THEN ShareBlend(row.CentralBoilerWH, row.IndividualBoilerWH,
                                share)
                ELSE row.CentralBoilerWH
        boilerSH == IF apartments
                    THEN ShareBlend(row.CentralBoilerSH,
                                    row.IndividualBoilerSH, share)
                    ELSE row.CentralBoilerSH
    IN  [e \in CostEndUses |-> [f \in PowerFuels |->
            CASE e = "Space heating" /\ f = "Solids" ->
                    Round6(NDiv(boilerSH, Z(1000000)))
              [] e = "Space heating" /\ f \in centralHPColumns -> Round6(hpSH)
              [] e = "Space heating" /\ f \in centralBoilerColumns ->
                    Round6(boilerSH)
              [] e = "Space cooling" -> Round6(hpSC)
              [] e = "Water heating" -> Round6(hpWH) ]]

s16AddEquivalentPowerDataFrame(df) ==
    [i \in DOMAIN df |->
        [ k \in DOMAIN df[i] \cup {"EP"} |->
            IF k = "EP" THEN EquivalentPower(df[i]) ELSE df[i][k] ]]

\* Share Individual of the country's dwellings row.
IndividualShares == {Z(0), Q(3, 10), Q(1, 2), Z(1)}

\* The archetypes of the rows of an inventory.
PowerInventories == [1..3 -> SeqToSet(BUILDING_USES)]

InitPower ==
    /\ pc = "s15"
    /\ \E uses \in PowerInventories, share \in IndividualShares :
          /\ uses[1] \in FocusUses
          /\ uses[2] \in {"Apartment Block", "Health", "Offices", "Sport"}
          /\ dfCSV = [i \in 1..3 |->
                        [Use |-> uses[i], ShareIndividual |-> share]]
    /\ payload = Idle
    /\ verdict = Idle
    /\ weather = Idle
    /\ dfTemperatures = <<>>
    /\ dfSchedule = <<>>
    /\ dfSolarResults = <<>>
    /\ dictSchedule = <<>>
    /\ dictConsolidated = <<>>
    /\ dictHourlyResults = <<>>
    /\ output = <<>>
    /\ request = NoRequest
    /\ result = Pending
    /\ error = ""
    /\ frames = <<>>

ExecS15 ==
    /\ pc = "s15"
    /\ dfCSV' = s15AddCapacityDataFrame(dfCSV)
    /\ pc' = "s16"
    /\ UNCHANGED <<dfTemperatures, dfSchedule, dfSolarResults, dictSchedule,
                   dictConsolidated, dictHourlyResults, output, request,
                   result, error, payload, verdict, weather, frames>>

ExecS16 ==
    /\ pc = "s16"
    /\ dfCSV' = s16AddEquivalentPowerDataFrame(dfCSV)
    /\ pc' = "s17"
    /\ UNCHANGED <<dfTemperatures, dfSchedule, dfSolarResults, dictSchedule,
                   dictConsolidated, dictHourlyResults, output, request,
                   result, error, payload, verdict, weather, frames>>

NextPower ==
    \/ ExecS15
    \/ ExecS16

SpecPower == InitPower /\ [][NextPower]_vars

\* C19: after stage 16, the equivalent power of a building that is not an
\* Apartment Block is, for every end use and fuel, a central capacity of its
\* archetype as stage 15 wrote it: Central HP or Central Boiler of the end
\* use for heating and water heating (Central HP for the heat pump fuels of
\* space heating, Central Boiler for its other fuels), HP for cooling.
C19_CentralCapacityUnmodified ==
    pc = "s17" =>
        \A i \in DOMAIN dfCSV :
            dfCSV[i].Use # "Apartment Block" =>
                \A f \in PowerFuels :
                    /\ dfCSV[i].EP["Space heating"][f] =
                          IF f \in centralHPColumns THEN dfCSV[i].CentralHPSH
                          ELSE dfCSV[i].CentralBoilerSH
                    /\ dfCSV[i].EP["Space cooling"][f] = dfCSV[i].HPSC
                    /\ dfCSV[i].EP["Water heating"][f] \in
                          {dfCSV[i].CentralHPWH, dfCSV[i].CentralBoilerWH}

-----------------------------------------------------------------------------
(* Stages 18 and 19 with the schedule DataFrames as objects: an entry of    *)
(* dictSchedule holds a reference to a DataFrame, and two entries may hold  *)
(* the same one                                                             *)

\* Buildings of the inventories of this specification.
NEntries == 3

\* Position in the loop of stage 19: the iteration that comes next.
EntryPcs == <<"s19.1", "s19.2", "s19.3", "s19.4">>

\* Inventories with distinct Building IDs, every mix of archetype, envelope
\* and equipment.
EntryInventories ==
    {[i \in 1..NEntries |-> BuildingRow(100 + i, u[i], k[i][1], k[i][2])] :
        u \in [1..NEntries -> FocusUses], k \in [1..NEntries -> StockKinds]}

\* The DataFrame dfGenSched<archetype> of stage 18.
GeneralRef(use) == [kind |-> "general", use |-> use, id |-> 0]

\* The DataFrame pd.concat returns in the iteration of stage 19 for key.
ConcatRef(key) == [kind |-> "concat", use |-> "", id |-> key]

\* The DataFrame a reference points to.
Deref(store, ref) ==
    IF ref.kind = "general" THEN store.general[ref.use]
    ELSE store.concat[ref.id]

\* The store after the DataFrame ref points to has become frame.
Store(store, ref, frame) ==
    IF ref.kind = "general"
    THEN [store EXCEPT !.general[ref.use] = frame]
    ELSE [store EXCEPT !.concat =
             [id \in DOMAIN @ \cup {ref.id} |->
                 IF id = ref.id THEN frame ELSE @[id]]]

\* Stage 18: one DataFrame per archetype, whatever the inventory holds.
s18GeneralFrames(sched, temps) ==
    [ general |-> [u \in SeqToSet(BUILDING_USES) |->
                      [base |-> GeneralSchedule(u, sched, temps),
                       schedule |-> <<>>]],
      concat  |-> <<>> ]

\* Stage 18: dictSchedule[Building ID] = {use, schedule}, where schedule is
\* the DataFrame of the row's archetype itself, not a copy of it.
s18Entries(df) ==
    [id \in BuildingIDs(df) |->
        LET i == CHOOSE j \in RowsWhereID(df, id) :
                    \A k \in RowsWhereID(df, id) : k <= j
        IN  [use |-> df[i].Use, schedule |-> GeneralRef(df[i].Use)]]

\* The DataFrame the iteration for key writes its columns to: pd.concat
\* builds a new one.
ConcatTarget(key, ref) == ConcatRef(key)

\* One iteration of the loop of stage 19: the entry of key gets the
\* concatenated DataFrame, and the D-, IG-, ARL-, DG- and FC- columns are
\* computed into it from the first row of the building table that carries
\* the key.
s19Iteration(df, dict, store, key) ==
    LET i      == Min(RowsWhereID(df, key))
        old    == Deref(store, dict[key].schedule)
        target == ConcatTarget(key, dict[key].schedule)
        frame  == [base |-> old.base,
                   schedule |-> ScenarioSchedule(df[i], RowLabel(i), old.base)]
    IN  [ dict   |-> [dict EXCEPT ![key].schedule = target],
          frames |-> Store(store, target, frame) ]

InitEntries ==
    /\ pc = "s18"
    /\ dfCSV \in EntryInventories
    /\ dfTemperatures = TemperatureRows(4)
    /\ dfSchedule = s04LoadDatabase(TemperatureRows(4), "all", Z(0), Z(0))
    /\ dfSolarResults = <<>>
    /\ dictSchedule = <<>>
    /\ dictConsolidated = <<>>
    /\ dictHourlyResults = <<>>
    /\ output = <<>>
    /\ request = NoRequest
    /\ result = Pending
    /\ error = ""
    /\ frames = <<>>
    /\ payload = Idle
    /\ verdict = Idle
    /\ weather = Idle

ExecS18Entries ==
    /\ pc = "s18"
    /\ frames' = s18GeneralFrames(dfSchedule, dfTemperatures)
    /\ dictSchedule' = s18Entries(dfCSV)
    /\ pc' = EntryPcs[1]
    /\ UNCHANGED <<dfCSV, dfTemperatures, dfSchedule, dfSolarResults,
                   dictConsolidated, dictHourlyResults, output, request,
                   result, error, payload, verdict, weather>>

\* for key, dictValue in dictSchedule.items(): the keys come in the order
\* of their first row in the building table.
ExecS19Entry(i) ==
    /\ i <= Len(dfCSV)
    /\ pc = EntryPcs[i]
    /\ LET after == s19Iteration(dfCSV, dictSchedule, frames,
                                 dfCSV[i].BuildingID)
       IN  /\ dictSchedule' = after.dict
           /\ frames' = after.frames
    /\ pc' = IF i = Len(dfCSV) THEN "s21" ELSE EntryPcs[i + 1]
    /\ UNCHANGED <<dfCSV, dfTemperatures, dfSchedule, dfSolarResults,
                   dictConsolidated, dictHourlyResults, output, request,
                   result, error, payload, verdict, weather>>

NextEntries ==
    \/ ExecS18Entries
    \/ \E i \in 1..NEntries : ExecS19Entry(i)

SpecEntries == InitEntries /\ [][NextEntries]_vars

\* The DataFrame the entry of key holds.
EntryFrame(key) == Deref(frames, dictSchedule[key].schedule)

\* Position of the iteration of stage 19 that comes next, 0 outside the loop.
EntryPosition ==
    IF \E i \in 1..NEntries : pc = EntryPcs[i]
    THEN CHOOSE i \in 1..NEntries : pc = EntryPcs[i]
    ELSE 0

\* An iteration of stage 19 leaves the schedule of every other building as
\* it was.
NoCrossWrites ==
    EntryPosition > 0 =>
        \A j \in 1..Len(dfCSV) :
            j # EntryPosition =>
                EntryFrame(dfCSV[j].BuildingID)'
                    = EntryFrame(dfCSV[j].BuildingID)

\* After stage 19 the DG- and FC- series of every building are the ones its
\* own row and the general schedule of its archetype give when the building
\* is the first one processed.
OrderFree ==
    pc = "s21" =>
        \A j \in 1..Len(dfCSV) :
            EntryFrame(dfCSV[j].BuildingID).schedule
                = ScenarioSchedule(dfCSV[j], RowLabel(1),
                                   GeneralSchedule(dfCSV[j].Use, dfSchedule,
                                                   dfTemperatures))

\* C20: stage 19 writes each building's schedule without touching another
\* building's, and a building's DG- and FC- series depend only on its own
\* row and its archetype's schedule, whatever the order of processing.
C20_EntriesIndependent == [][NoCrossWrites]_vars /\ []OrderFree

-----------------------------------------------------------------------------
(* Stages 2 and 4 called in either order: s02RetrieveTemperatures saves the *)
(* temperature rows to temporary/<region>_Temperatures.csv and              *)
(* s04LoadDatabase reads that file; the file of a run that failed stays on  *)
(* disk, the one of a run that succeeded is removed                         *)

\* The temperature file found on disk before the run: none, or the one an
\* earlier run left.
FilesLeft == {<<>>} \cup {TemperatureRows(t) : t \in TempStarts}

InitOrder ==
    /\ pc = "start"
    /\ payload \in [t0 : TempStarts, scenario : Scenarios, left : FilesLeft]
    /\ dfTemperatures = payload.left
    /\ dfCSV = <<>>
    /\ dfSchedule = <<>>
    /\ dfSolarResults = <<>>
    /\ dictSchedule = <<>>
    /\ dictConsolidated = <<>>
    /\ dictHourlyResults = <<>>
    /\ output = <<>>
    /\ request = NoRequest
    /\ result = Pending
    /\ error = ""
    /\ frames = <<>>
    /\ verdict = Idle
    /\ weather = Idle

\* s02RetrieveTemperatures, before or after s04LoadDatabase: a download
\* that answers 200 is saved over whatever file is there.
CallS02 ==
    /\ pc \in {"start", "s04"}
    /\ \E status \in {200, 404} :
          IF status # 200
          THEN Raise("ValueError: temperatures not downloaded")
               /\ UNCHANGED dfTemperatures
          ELSE /\ dfTemperatures' = TemperatureRows(payload.t0)
               /\ pc' = IF pc = "start" THEN "s02" ELSE "s04.s02"
               /\ UNCHANGED error
    /\ UNCHANGED <<dfCSV, dfSchedule, dfSolarResults, dictSchedule,
                   dictConsolidated, dictHourlyResults, output, request,
                   result, payload, verdict, weather, frames>>

\* s04LoadDatabase, before or after s02RetrieveTemperatures: pd.read_csv of
\* the temperature file raises when there is none.
CallS04 ==
    /\ pc \in {"start", "s02"}
    /\ IF dfTemperatures = <<>>
       THEN Raise("FileNotFoundError") /\ UNCHANGED dfSchedule
       ELSE /\ dfSchedule' = s04LoadDatabase(dfTemperatures,
                                             payload.scenario[1],
                                             payload.scenario[2],
                                             payload.scenario[3])
            /\ pc' = IF pc = "start" THEN "s04" ELSE "s02.s04"
            /\ UNCHANGED error
    /\ UNCHANGED <<dfCSV, dfTemperatures, dfSolarResults, dictSchedule,
                   dictConsolidated, dictHourlyResults, output, request,
                   result, payload, verdict, weather, frames>>

NextOrder ==
    \/ CallS02
    \/ CallS04

SpecOrder == InitOrder /\ [][NextOrder]_vars

\* The degree hours of the schedule table are the ones of the rows temps.
DegreeHoursOf(temps) ==
    \A u \in SeqToSet(BUILDING_USES), h \in Hours :
        /\ dfSchedule[u][h].HDH
              = NMul(RawHDH(temps[h]), NSub(Z(1), payload.scenario[2]))
        /\ dfSchedule[u][h].CDH
              = NMul(RawCDH(temps[h]), NSub(Z(1), payload.scenario[3]))

\* C21 as stated: s04LoadDatabase gives the tables of the run whether
\* s02RetrieveTemperatures ran before it, after it or not at all.
C21_StagesIndependent ==
    /\ pc \in {"s04", "s04.s02", "s02.s04"}
          => DegreeHoursOf(TemperatureRows(payload.t0))
    /\ ~(pc = "except" /\ error = "FileNotFoundError")

\* C21, amended: s04LoadDatabase computes the degree hours from the
\* temperature file: after s02RetrieveTemperatures they are the ones of the
\* run's temperatures, before it or without it they are the ones of the
\* file an earlier run left, and with no file on disk the call raises.
C21_TablesFollowTemperatureFile ==
    /\ pc = "s02.s04" => DegreeHoursOf(TemperatureRows(payload.t0))
    /\ pc \in {"s04", "s04.s02"} =>
          payload.left # <<>> /\ DegreeHoursOf(payload.left)
    /\ (pc = "except" /\ error = "FileNotFoundError") => payload.left = <<>>

\* s04LoadDatabase ran after s02RetrieveTemperatures in a cold hour, with a
\* warmer file left on disk before the run.
C21_Witness ==
    /\ pc = "s02.s04"
    /\ payload.left # <<>>
    /\ payload.left # TemperatureRows(payload.t0)
    /\ \E h \in Hours : NLt(Z(0), dfSchedule["Offices"][h].HDH)

-----------------------------------------------------------------------------
(* Stage 5: the installed PV area of an archetype, from the archetype's     *)
(* entry of scenario.solar and the System entry of                          *)
(* 28-Solar_parameter_buildings.json.  A nullable value is <<>> for null    *)
(* and <<v>> for the number v                                               *)

null == <<>>

\* x06EstablishValue: the value of the property when it lies between the
\* limits, the default when it does not or when the property is absent, and
\* null when the property is null.
x06EstablishValue(dict, name, limitDown, limitUp, defaultValue) ==
    IF name \in DOMAIN dict
    THEN IF dict[name] # null
         THEN IF NLe(limitDown, dict[name][1]) /\ NLe(dict[name][1], limitUp)
              THEN dict[name]
              ELSE <<defaultValue>>
         ELSE null
    ELSE <<defaultValue>>

\* next((i for i, value in enumerate(parameters) if value is not None), -1)
FirstNotNone(parameters) ==
    IF \E i \in 1..Len(parameters) : parameters[i] # null
    THEN Min({i \in 1..Len(parameters) : parameters[i] # null}) - 1
    ELSE -1

Million == Z(1000000)

\* x07GetAvailableArea with power before area_total in the priority order.
x07PowerFirst(parameters, cost, landUse) ==
    IF parameters[2] # null
    THEN [areaAvailable |-> NDiv(NMul(parameters[2][1], Million), landUse),
          power |-> parameters[2][1],
          capex |-> NMul(NMul(parameters[2][1], cost), Million)]
    ELSE IF parameters[1] # null
    THEN [areaAvailable |-> parameters[1][1],
          power |-> NDiv(NMul(parameters[1][1], landUse), Million),
          capex |-> NMul(NMul(NDiv(NMul(parameters[1][1], landUse), Million),
                              cost), Million)]
    ELSE [areaAvailable |-> NDiv(parameters[3][1], NMul(cost, landUse)),
          power |-> NDiv(parameters[3][1], NMul(cost, Million)),
          capex |-> parameters[3][1]]

\* x07GetAvailableArea: area (m2), power (MW) and capex from the first
\* parameter that is not None.
x07GetAvailableArea(parameters, cost, landUse) ==
    LET index == FirstNotNone(parameters)
    IN  IF index = 2
        THEN LET power == NDiv(parameters[3][1], NMul(cost, Million))
             IN  [areaAvailable |-> NDiv(NMul(power, Million), landUse),
                  power |-> power,
                  capex |-> parameters[3][1]]
        ELSE IF index = 1
        THEN [areaAvailable |-> NDiv(NMul(parameters[2][1], Million), landUse),
              power |-> parameters[2][1],
              capex |-> NMul(NMul(parameters[2][1], cost), Million)]
        ELSE LET power == NDiv(NMul(parameters[1][1], landUse), Million)
             IN  [areaAvailable |-> parameters[1][1],
                  power |-> power,
                  capex |-> NMul(NMul(power, cost), Million)]

\* The upper limit 10**10 of area_total, power and capex: above every number
\* of the model.
TenToTheTen == Inf(1)

\* The part of s05RetrieveSolarData that leads to the installed area of one
\* archetype.
s05AvailableArea(dictArchetype, dictSystem) ==
    LET systemCost == x06EstablishValue(dictSystem, "system_cost",
                                        Q(1, 5), Z(1), Q(1, 2))[1]
        landUsePV  == x06EstablishValue(dictSystem, "land_use_pv",
                                        Z(50), Z(200), Z(100))[1]
        area0  == IF "area_total" \in DOMAIN dictArchetype
                  THEN x06EstablishValue(dictArchetype, "area_total",
                                         Z(0), TenToTheTen, Z(0))
                  ELSE null
        power0 == IF "power" \in DOMAIN dictArchetype
                  THEN x06EstablishValue(dictArchetype, "power",
                                         Z(0), TenToTheTen, Z(0))
                  ELSE null
        capex0 == IF "capex" \in DOMAIN dictArchetype
                  THEN x06EstablishValue(dictArchetype, "capex",
                                         Z(0), TenToTheTen, Z(0))
                  ELSE null
        area1  == IF area0 = null /\ power0 = null /\ capex0 = null
                  THEN <<Z(0)>> ELSE area0
    IN  x07GetAvailableArea(<<area1, power0, capex0>>, systemCost, landUsePV)

\* Values of area_total (m2), power (MW) and capex in scenario.solar; the
\* validator only asks for the three keys to be there.
AreaValues == {null, <<Z(-5)>>, <<Z(0)>>, <<Z(200)>>}

PowerValues == {null, <<Z(-1)>>, <<Z(0)>>, <<Q(1, 2)>>, <<Z(3)>>}

CapexValues == {null, <<Z(-1)>>, <<Z(0)>>, <<Z(1000)>>}

\* System entries: cost and land use inside their limits, a cost outside
\* them, and neither property.
SystemDicts ==
    { [opex_pv |-> <<Z(15000)>>, system_cost |-> <<Q(2, 5)>>,
       land_use_pv |-> <<Z(50)>>],
      [opex_pv |-> <<Z(15000)>>, system_cost |-> <<Z(5)>>,
       land_use_pv |-> <<Z(100)>>],
      [opex_pv |-> <<Z(15000)>>] }

InitSolar ==
    /\ pc = "s05"
    /\ payload \in [area_total : AreaValues, power : PowerValues,
                    capex : CapexValues, System : SystemDicts]
    /\ dfCSV = <<>>
    /\ dfTemperatures = <<>>
    /\ dfSchedule = <<>>
    /\ dfSolarResults = <<>>
    /\ dictSchedule = <<>>
    /\ dictConsolidated = <<>>
    /\ dictHourlyResults = <<>>
    /\ output = <<>>
    /\ request = NoRequest
    /\ result = Pending
    /\ error = ""
    /\ frames = <<>>
    /\ verdict = Idle
    /\ weather = Idle

ExecAvailableArea ==
    /\ pc = "s05"
    /\ dfSolarResults' = s05AvailableArea(
                            [area_total |-> payload.area_total,
                             power |-> payload.power,
                             capex |-> payload.capex], payload.System)
    /\ pc' = "s05.area"
    /\ UNCHANGED <<dfCSV, dfTemperatures, dfSchedule, dictSchedule,
                   dictConsolidated, dictHourlyResults, output, request,
                   result, error, payload, verdict, weather, frames>>

NextSolar == ExecAvailableArea

SpecSolar == InitSolar /\ [][NextSolar]_vars

\* Cost (per W) and land use (W/m2) the run works with.
CostInUse ==
    IF "system_cost" \in DOMAIN payload.System
       /\ NLe(Q(1, 5), payload.System.system_cost[1])
       /\ NLe(payload.System.system_cost[1], Z(1))
    THEN payload.System.system_cost[1] ELSE Q(1, 2)

LandUseInUse ==
    IF "land_use_pv" \in DOMAIN payload.System
    THEN payload.System.land_use_pv[1] ELSE Z(100)

\* The installed area the first non-null of the three values v gives.
AreaByPriority(a, p, c) ==
    IF a # null THEN a[1]
    ELSE IF p # null THEN NDiv(NMul(p[1], Million), LandUseInUse)
    ELSE IF c # null THEN NDiv(c[1], NMul(CostInUse, LandUseInUse))
    ELSE Z(0)

\* A value outside [0, 10**10] counts as 0.
WithinLimits(v) ==
    IF v = null THEN null ELSE IF NLt(v[1], Z(0)) THEN <<Z(0)>> ELSE v

-----------------------------------------------------------------------------
(* Stage 22: variable cost and emissions of the hourly table *)

RECURSIVE DotProduct(_, _, _)
\* Sum over the first i buckets of consumption x unit factor.
DotProduct(consumption, factors, i) ==
    IF i = 0 THEN Z(0)
    ELSE NAdd(DotProduct(consumption, factors, i - 1),
              NMul(consumption[Buckets[i]], factors[Buckets[i]]))

\* The bucket consumptions of archetype a at hour h with the Electricity
\* bucket before the PV production is taken off.
BeforePV(a, h) ==
    [dictHourlyResults[a].rows[h].value EXCEPT
        !["Electricity"] =
            SumOver([i \in 1..Len(dfCSV) |->
                        SumCols(dictSchedule[dfCSV[i].BuildingID].schedule[h].FC,
                                HourlySources("Electricity"))],
                    RowsInOrder(dfCSV, a, 1))]

\* C23: in the hourly table of an archetype there is one row of the
\* building table, of that archetype, whose unit variable costs and emission
\* factors give at every hour Variable cost and Emissions as the sum over
\* the buckets of consumption x factor (the Electricity consumption taken
\* after or before the PV production is subtracted).
C23_CostIsDotProduct ==
    pc = "format" =>
        \A a \in SeqToSet(BUILDING_USES) :
            LET csv == UseRows(dfCSV, a, 1)
                row(h) == dictHourlyResults[a].rows[h]
                fits(x, h, f) ==
                    \/ x = DotProduct(row(h).value, f, Len(Buckets))
                    \/ x = DotProduct(BeforePV(a, h), f, Len(Buckets))
            IN  csv # <<>> =>
                  \E j \in 1..Len(csv) : \A h \in Hours :
                      /\ fits(row(h).VariableCost, h, dfCSV[csv[j]].opexVar)
                      /\ fits(row(h).Emissions, h, dfCSV[csv[j]].opexEm)

-----------------------------------------------------------------------------
(* validateProcessPayload, every check of it (specification SpecPayload).   *)
(* A property of the payload is a value [t, v, s]: absent, null, a number   *)
(* v, a string s or a boolean (v is 1 or 0)                                 *)

JsonAbsent == [t |-> "absent", v |-> Z(0), s |-> ""]

JsonNull == [t |-> "null", v |-> Z(0), s |-> ""]

Num(q) == [t |-> "num", v |-> q, s |-> ""]

Str(s) == [t |-> "str", v |-> Z(0), s |-> s]

Bool(b) == [t |-> "bool", v |-> IF b THEN Z(1) ELSE Z(0), s |-> ""]

\* constants.REGION_LIST, as far as the payloads of the model go.
REGION_LIST == {"ES21", "ES51"}

\* constants.LEVELS
LEVELS == {"High", "Medium", "Low"}

\* str.strip().upper()
StripUpper(s) == IF s = " es21" THEN "ES21" ELSE s

\* int(x) of a number: the fraction is cut off.
Trunc(q) == Z(Sgn(q.n) * (Abs(q.n) \div q.d))

\* math.floor(x) of a number >= 0.
Floor(q) == q.n \div q.d

\* "not name in dict or dict[name] is None"
Missing(x) == x.t \in {"absent", "null"}

\* validateLimits: True if limitDown <= value <= limitUp else False
validateLimits(value, limitDown, limitUp) ==
    NLe(limitDown, value) /\ NLe(value, limitUp)

\* A property that must be there and lie between two limits; comparing a
\* string with a number raises TypeError.
Limited(x, limitDown, limitUp) ==
    IF Missing(x) THEN "Exception: not present or null"
    ELSE IF x.t = "str" THEN "TypeError"
    ELSE IF ~validateLimits(x.v, limitDown, limitUp)
    THEN "Exception: invalid value"
    ELSE ""

\* The first check of the sequence that raises.
RECURSIVE FirstRaised(_, _)
FirstRaised(checks, i) ==
    IF i > Len(checks) THEN ""
    ELSE IF checks[i] # "" THEN checks[i]
    ELSE FirstRaised(checks, i + 1)

\* Shares the validator checks in each end use, in the order of
\* SummedEndUses; the last one of space_heating, electricity_in_circulation,
\* is not part of the sum.
CheckedShares == <<14, 2, 13, 5, 1, 1>>

Periods7 == 7

\* nutsid and year (the object "scenario" that holds the other properties is
\* there in every payload of the model).
validateRegionAndYear(p) ==
    FirstRaised(
      << IF Missing(p.nutsid) THEN "Exception: not present or null"
         ELSE IF p.nutsid.t # "str" THEN "AttributeError"
         ELSE IF StripUpper(p.nutsid.s) \notin REGION_LIST
         THEN "Exception: invalid value" ELSE "",
         IF Missing(p.year) THEN "Exception: not present or null"
         ELSE IF p.year.t = "str" THEN "ValueError"
         ELSE IF ~validateLimits(Trunc(p.year.v), Z(1900), Z(2050))
         THEN "Exception: invalid value" ELSE "" >>, 1)

\* The four numbers of the scenario.
validateScenarioNumbers(p) ==
    FirstRaised(
      << Limited(p.increase_residential_built_area, Z(0), Z(1)),
         Limited(p.increase_service_built_area, Z(0), Z(1)),
         Limited(p.hdd_reduction, Z(-1), Z(1)),
         Limited(p.cdd_reduction, Z(-1), Z(1)) >>, 1)

\* building_use of an entry of any of the four lists.
validateBuildingUse(x) ==
    IF Missing(x) THEN "Exception: not present or null"
    ELSE IF x.t # "str" \/ x.s \notin SeqToSet(BUILDING_USES)
    THEN "Exception: must be one of the following" ELSE ""

\* One end use of an entry: pct_build_equipped, then each share.
validateEndUse(g) ==
    FirstRaised(<<Limited(g.pct_build_equipped, Z(0), Z(1))>>
                \o [j \in 1..Len(g.shares) |->
                       Limited(g.shares[j], Z(0), Z(1))], 1)

\* math.floor((float(a) + float(b) + ...) * 1.0e+04) / 1.0e+04 != 1
SumIsNotOne(g, systems) ==
    Floor(NMul(NSum([j \in 1..systems |-> g.shares[j].v], systems),
               Z(Scale4))) # Scale4

\* An entry of active_measures or active_measures_baseline.
validateActiveMeasure(m) ==
    FirstRaised(
      << validateBuildingUse(m.building_use),
         IF Missing(m.user_defined_data)
         THEN "Exception: not present or null"
         ELSE IF m.user_defined_data.t # "bool"
         THEN "Exception: invalid value (true / false)" ELSE "" >>
      \o [k \in 1..Len(SummedEndUses) |-> validateEndUse(m.enduses[k])]
      \o [k \in 1..Len(SummedEndUses) |->
            IF m.user_defined_data = Bool(TRUE)
               /\ SumIsNotOne(m.enduses[k], SummedEndUses[k].systems)
            THEN "ValueError: must add up to 1" ELSE ""], 1)

\* An entry of passive_measures.
validatePassiveMeasure(m) ==
    FirstRaised(
      << validateBuildingUse(m.building_use),
         IF Missing(m.ref_level) THEN "Exception: not present or null"
         ELSE IF m.ref_level.t # "str" \/ m.ref_level.s \notin LEVELS
         THEN "Exception: invalid value (High / Medium / Low)" ELSE "" >>
      \o [k \in 1..Periods7 |->
            Limited(m.percentages_by_periods[k], Z(0), Z(1))], 1)

\* An entry of solar: the three keys must be there, with any value; the
\* message of a missing key reads the key and so raises KeyError.
validateSolar(item) ==
    FirstRaised(
      << validateBuildingUse(item.building_use),
         IF item.area_total.t = "absent" THEN "KeyError" ELSE "",
         IF item.power.t = "absent" THEN "KeyError" ELSE "",
         IF item.capex.t = "absent" THEN "KeyError" ELSE "" >>, 1)

\* "not present, has a null value or is empty", then the entries in order.
validateEntries(list, check(_)) ==
    IF Len(list) = 0 THEN "Exception: not present, null or empty"
    ELSE FirstRaised([i \in 1..Len(list) |-> check(list[i])], 1)

\* validateProcessPayload: the first check that raises, "" when none does.
validateWholePayload(p) ==
    FirstRaised(
      << validateRegionAndYear(p),
         validateScenarioNumbers(p),
         validateEntries(p.active_measures, validateActiveMeasure),
         validateEntries(p.active_measures_baseline, validateActiveMeasure),
         validateEntries(p.passive_measures, validatePassiveMeasure),
         validateEntries(p.solar, validateSolar) >>, 1)


\* The payloads: a valid one, with the entries of each list given by the
\* archetypes they are for, and the same with one property changed.

ValidEndUse(k) ==
    [ pct_build_equipped |-> Num(Z(1)),
      shares |-> [j \in 1..CheckedShares[k] |->
                    Num(IF j = 1 THEN Z(1) ELSE Z(0))] ]

ValidActiveMeasure(use) ==
    [ building_use |-> Str(use),
      user_defined_data |-> Bool(TRUE),
      enduses |-> [k \in 1..Len(SummedEndUses) |-> ValidEndUse(k)] ]

ValidPassiveMeasure(use) ==
    [ building_use |-> Str(use),
      ref_level |-> Str("High"),
      percentages_by_periods |-> [k \in 1..Periods7 |-> Num(Q(1, 2))] ]

\* The entry of the docstring of s05RetrieveSolarData.
ValidSolar(use) ==
    [ building_use |-> Str(use),
      area_total |-> JsonNull,
      power |-> Num(Q(195826, 1000)),
      capex |-> JsonNull ]

Document(active, baseline, passive, solar) ==
    [ nutsid |-> Str("ES21"),
      year |-> Num(Z(2019)),
      increase_residential_built_area |-> Num(Q(1, 10)),
      increase_service_built_area |-> Num(Q(1, 10)),
      hdd_reduction |-> Num(Z(0)),
      cdd_reduction |-> Num(Z(0)),
      active_measures |->
          [i \in 1..Len(active) |-> ValidActiveMeasure(active[i])],
      active_measures_baseline |->
          [i \in 1..Len(baseline) |-> ValidActiveMeasure(baseline[i])],
      passive_measures |->
          [i \in 1..Len(passive) |-> ValidPassiveMeasure(passive[i])],
      solar |-> [i \in 1..Len(solar) |-> ValidSolar(solar[i])] ]

\* The payload with an entry of each list for each archetype.
CompleteDocument ==
    Document(BUILDING_USES, BUILDING_USES, BUILDING_USES, BUILDING_USES)

\* The archetypes a list of the payload may have entries for.
UseLists ==
    {BUILDING_USES, <<"Offices">>, <<"Apartment Block", "Offices">>}

ScalarNames ==
    {"nutsid", "year", "increase_residential_built_area",
     "increase_service_built_area", "hdd_reduction", "cdd_reduction"}

ActiveLists == {"active_measures", "active_measures_baseline"}

Path(list, i, field, k, j) ==
    [list |-> list, i |-> i, field |-> field, k |-> k, j |-> j]

NoPath == Path("", 0, "", 0, 0)

\* Every property of the payload that is not an object or a list.
Leaves(doc) ==
    {Path("", 0, f, 0, 0) : f \in ScalarNames}
    \cup UNION {
           {Path(l, i, f, 0, 0) :
               i \in 1..Len(doc[l]),
               f \in {"building_use", "user_defined_data"}}
           \cup {Path(l, i, "pct_build_equipped", k, 0) :
                   i \in 1..Len(doc[l]), k \in 1..Len(SummedEndUses)}
           \cup UNION {{Path(l, i, "share", k, j) :
                          i \in 1..Len(doc[l]), j \in 1..CheckedShares[k]} :
                       k \in 1..Len(SummedEndUses)} :
           l \in ActiveLists}
    \cup {Path("passive_measures", i, f, 0, 0) :
             i \in 1..Len(doc.passive_measures),
             f \in {"building_use", "ref_level"}}
    \cup {Path("passive_measures", i, "percentage", k, 0) :
             i \in 1..Len(doc.passive_measures), k \in 1..Periods7}
    \cup {Path("solar", i, f, 0, 0) :
             i \in 1..Len(doc.solar),
             f \in {"building_use", "area_total", "power", "capex"}}

GetInEntry(m, p) ==
    IF p.field = "pct_build_equipped" THEN m.enduses[p.k].pct_build_equipped
    ELSE IF p.field = "share" THEN m.enduses[p.k].shares[p.j]
    ELSE IF p.field = "percentage" THEN m.percentages_by_periods[p.k]
    ELSE m[p.field]

Get(doc, p) ==
    IF p.list = "" THEN doc[p.field] ELSE GetInEntry(doc[p.list][p.i], p)

PutInEntry(m, p, x) ==
    IF p.field = "pct_build_equipped"
    THEN [m EXCEPT !.enduses[p.k].pct_build_equipped = x]
    ELSE IF p.field = "share"
    THEN [m EXCEPT !.enduses[p.k].shares[p.j] = x]
    ELSE IF p.field = "percentage"
    THEN [m EXCEPT !.percentages_by_periods[p.k] = x]
    ELSE [m EXCEPT ![p.field] = x]

Put(doc, p, x) ==
    IF p.list = "" THEN [doc EXCEPT ![p.field] = x]
    ELSE [doc EXCEPT ![p.list][p.i] = PutInEntry(@, p, x)]

\* iteratePayload of the tests: a number (a boolean is one) becomes -10000,
\* anything else 'XXX'.
WrongValue(x) ==
    IF x.t \in {"num", "bool"} THEN Num(Z(-10000)) ELSE Str("XXX")

\* Values on, inside and outside the limits of each bounded property.
BoundaryValues(name) ==
    IF name = "year"
    THEN {Z(1899), Z(1900), Z(1975), Z(2050), Z(2051), Q(4101, 2)}
    ELSE IF name \in {"hdd_reduction", "cdd_reduction"}
    THEN {Q(-11, 10), Z(-1), Z(0), Z(1), Q(11, 10)}
    ELSE {Q(-1, 10), Z(0), Q(1, 2), Z(1), Q(11, 10)}

\* The limits the payload is documented with.
LowerLimit(name) ==
    IF name = "year" THEN Z(1900)
    ELSE IF name \in {"hdd_reduction", "cdd_reduction"} THEN Z(-1)
    ELSE Z(0)

UpperLimit(name) == IF name = "year" THEN Z(2050) ELSE Z(1)

Edited(original, kind, path, x) ==
    [ kind |-> kind, path |-> path,
      document |-> IF kind = "none" THEN original
                   ELSE Put(original, path, x) ]

Payloads ==
    {Edited(Document(a, b, p, s), "none", NoPath, JsonNull) :
        a \in UseLists, b \in UseLists, p \in UseLists, s \in UseLists}
    \cup {Edited(CompleteDocument, "remove", p, JsonAbsent) :
            p \in Leaves(CompleteDocument)}
    \cup {Edited(CompleteDocument, "replace", p,
                 WrongValue(Get(CompleteDocument, p))) :
            p \in Leaves(CompleteDocument)}
    \cup UNION {{Edited(CompleteDocument, "set", Path("", 0, f, 0, 0),
                        Num(x)) : x \in BoundaryValues(f)} :
                f \in ScalarNames \ {"nutsid"}}

InitPayload ==
    /\ pc = "validate"
    /\ payload \in Payloads
    /\ verdict = Idle
    /\ weather = Idle
    /\ dfCSV = <<>>
    /\ dfTemperatures = <<>>
    /\ dfSchedule = <<>>
    /\ dfSolarResults = <<>>
    /\ dictSchedule = <<>>
    /\ dictConsolidated = <<>>
    /\ dictHourlyResults = <<>>
    /\ output = <<>>
    /\ request = NoRequest
    /\ result = Pending
    /\ error = ""
    /\ frames = <<>>

\* processPayload = validator.validateProcessPayload(processPayload)
ExecValidateWholePayload ==
    /\ pc = "validate"
    /\ LET raised == validateWholePayload(payload.document)
       IN  /\ verdict' = (IF raised = "" THEN "accepted" ELSE raised)
           /\ result' = (IF raised = ""
                         THEN [kind |-> "payload",
                               payload |-> payload.document]
                         ELSE result)
    /\ pc' = "validated"
    /\ UNCHANGED <<dfCSV, dfTemperatures, dfSchedule, dfSolarResults,
                   dictSchedule, dictConsolidated, dictHourlyResults, output,
                   request, error, payload, weather, frames>>

RECURSIVE s05EntryUsed(_, _)
\* s05RetrieveSolarData, "for element in listInputJsonSolar": the entry
\* dictArchetype is bound to when the archetype at position a of
\* constants.BUILDING_USES is worked on: its own when the list has one, else
\* the one left from the archetype before, and none at all for the first.
s05EntryUsed(listSolar, a) ==
    IF \E i \in 1..Len(listSolar) :
          listSolar[i].building_use.s = BUILDING_USES[a]
    THEN BUILDING_USES[a]
    ELSE IF a = 1 THEN "UnboundLocalError"
    ELSE s05EntryUsed(listSolar, a - 1)

\* s05RetrieveSolarData on an accepted payload, as far as the entry of each
\* archetype goes.
ExecS05Entries ==
    /\ pc = "validated"
    /\ verdict = "accepted"
    /\ LET used == [a \in 1..Len(BUILDING_USES) |->
                       s05EntryUsed(result.payload.solar, a)]
       IN  IF used[1] = "UnboundLocalError"
           THEN /\ error' = "UnboundLocalError"
                /\ pc' = "failed"
                /\ UNCHANGED dfSolarResults
           ELSE /\ dfSolarResults' = used
                /\ pc' = "s05"
                /\ UNCHANGED error
    /\ UNCHANGED <<dfCSV, dfTemperatures, dfSchedule, dictSchedule,
                   dictConsolidated, dictHourlyResults, output, request,
                   result, payload, verdict, weather, frames>>

\* "dfCSV.loc[dfCSV['Use'] == measure['building_use'], ...] = ...": whether
\* a list has a measure that writes the rows of the archetype.
Written(list, use) ==
    \E i \in 1..Len(list) : list[i].building_use.s = use

\* s08AddActiveMeasures and s09AddPassiveMeasures, as far as which
\* archetypes get their rows written.
ExecS08S09 ==
    /\ pc = "s05"
    /\ dfCSV' = [a \in 1..Len(BUILDING_USES) |->
                   [ Use |-> BUILDING_USES[a],
                     shares |-> Written(result.payload.active_measures,
                                        BUILDING_USES[a]),
                     refLevel |-> Written(result.payload.passive_measures,
                                          BUILDING_USES[a]) ]]
    /\ pc' = "s09"
    /\ UNCHANGED <<dfTemperatures, dfSchedule, dfSolarResults, dictSchedule,
                   dictConsolidated, dictHourlyResults, output, request,
                   result, error, payload, verdict, weather, frames>>

NextPayload ==
    \/ ExecValidateWholePayload
    \/ ExecS05Entries
    \/ ExecS08S09

SpecPayload == InitPayload /\ [][NextPayload]_vars

InInterval(x, name) ==
    NLe(LowerLimit(name), x) /\ NLe(x, UpperLimit(name))

\* C24: with every other property valid, validateProcessPayload accepts a
\* payload whose year, hdd_reduction, cdd_reduction or increase of built
\* area is on a bound or inside its interval ([1900, 2050], [-1, 1],
\* [0, 1]) and raises for any value outside it.
C24_BoundsInclusive ==
    (pc # "validate" /\ payload.kind = "set") =>
        ( verdict = "accepted"
          <=> InInterval(payload.document[payload.path.field].v,
                         payload.path.field) )

\* C25: a valid payload with one property removed, one number replaced by
\* -10000 or one string replaced by 'XXX' is rejected; the valid payload
\* itself is accepted and handed back as it was.
C25_EveryChangeRejected ==
    pc # "validate" =>
        /\ payload.kind = "remove" => verdict # "accepted"
        /\ ( /\ payload.kind = "replace"
             /\ Get(CompleteDocument, payload.path).t
                    \in {"num", "bool", "str"} )
           => verdict # "accepted"
        /\ (payload.kind = "none" /\ payload.document = CompleteDocument)
           => (verdict = "accepted" /\ result.payload = CompleteDocument)

\* C27: an accepted payload has an entry for each archetype in each of its
\* four lists, so that s05 works on each archetype with that archetype's
\* own solar entry and s08/s09 write the rows of every archetype.
C27_EveryArchetypeHasEntries ==
    /\ (pc # "validate" /\ verdict = "accepted") =>
          \A a \in 1..Len(BUILDING_USES) :
              /\ Written(payload.document.active_measures, BUILDING_USES[a])
              /\ Written(payload.document.active_measures_baseline,
                         BUILDING_USES[a])
              /\ Written(payload.document.passive_measures, BUILDING_USES[a])
              /\ Written(payload.document.solar, BUILDING_USES[a])
    /\ pc = "failed" => error # "UnboundLocalError"
    /\ pc \in {"s05", "s09"} =>
          \A a \in 1..Len(BUILDING_USES) :
              dfSolarResults[a] = BUILDING_USES[a]
    /\ pc = "s09" =>
          \A a \in 1..Len(BUILDING_USES) :
              dfCSV[a].shares /\ dfCSV[a].refLevel


-----------------------------------------------------------------------------
(* validateCommandLineParameters (specification SpecCommandLine). The two   *)
(* times are strings, written as the sequences of their character codes     *)

Hyphen == 45

Colon == 58

LetterT == 84

Blank == 32

Zero == 48

Digits2(n) == <<Zero + (n \div 10), Zero + (n % 10)>>

Digits4(n) == Digits2(n \div 100) \o Digits2(n % 100)

\* The text of a time <<Y, m, d, H, M, S>>, with the month in two digits or
\* as short as it goes, and with the given character before the hour.
TimeText(t, twoDigitMonth, separator) ==
    Digits4(t[1]) \o <<Hyphen>>
    \o (IF twoDigitMonth \/ t[2] >= 10 THEN Digits2(t[2])
        ELSE <<Zero + t[2]>>)
    \o <<Hyphen>> \o Digits2(t[3]) \o <<separator>>
    \o Digits2(t[4]) \o <<Colon>> \o Digits2(t[5]) \o <<Colon>>
    \o Digits2(t[6])

At(s, i) == IF i \in 1..Len(s) THEN s[i] ELSE 0

IsDigit(c) == c \in Zero..(Zero + 9)

\* How many digits, at most max, the text has from position i on.
DigitsAt(s, i, max) ==
    CHOOSE n \in 0..max :
        /\ \A k \in 0..(n - 1) : IsDigit(At(s, i + k))
        /\ n = max \/ ~IsDigit(At(s, i + n))

RECURSIVE NumberAt(_, _, _)
NumberAt(s, i, n) ==
    IF n = 0 THEN 0 ELSE NumberAt(s, i, n - 1) * 10 + (s[i + n - 1] - Zero)

\* datetime.strptime(text, '%Y-%m-%dT%H:%M:%S'): the time <<Y, m, d, H, M,
\* S>>, or <<>> for ValueError. The year takes four digits, every other
\* field one or two.
strptime(s) ==
    LET nY == DigitsAt(s, 1, 4)
        pm == 6
        nm == DigitsAt(s, pm, 2)
        pd == pm + nm + 1
        nd == DigitsAt(s, pd, 2)
        pH == pd + nd + 1
        nH == DigitsAt(s, pH, 2)
        pM == pH + nH + 1
        nM == DigitsAt(s, pM, 2)
        pS == pM + nM + 1
        nS == DigitsAt(s, pS, 2)
    IN  IF /\ nY = 4 /\ nm >= 1 /\ nd >= 1 /\ nH >= 1 /\ nM >= 1 /\ nS >= 1
           /\ At(s, pm - 1) = Hyphen
           /\ At(s, pd - 1) = Hyphen
           /\ At(s, pH - 1) = LetterT
           /\ At(s, pM - 1) = Colon
           /\ At(s, pS - 1) = Colon
           /\ Len(s) = pS + nS - 1
           /\ NumberAt(s, pm, nm) \in 1..12
           /\ NumberAt(s, pd, nd)
                  \in 1..DaysInMonth(NumberAt(s, 1, 4), NumberAt(s, pm, nm))
           /\ NumberAt(s, pH, nH) \in 0..23
           /\ NumberAt(s, pM, nM) \in 0..59
           /\ NumberAt(s, pS, nS) \in 0..61
        THEN << NumberAt(s, 1, 4), NumberAt(s, pm, nm), NumberAt(s, pd, nd),
                NumberAt(s, pH, nH), NumberAt(s, pM, nM),
                NumberAt(s, pS, nS) >>
        ELSE <<>>

RECURSIVE StringLe(_, _, _)
\* a <= b of two strings: by the character codes, from position i on.
StringLe(a, b, i) ==
    IF i > Len(a) THEN TRUE
    ELSE IF i > Len(b) THEN FALSE
    ELSE IF a[i] < b[i] THEN TRUE
    ELSE IF a[i] > b[i] THEN FALSE
    ELSE StringLe(a, b, i + 1)

\* "parameters[3] <= parameters[2]"
EndNotAfterStart(startText, endText) == StringLe(endText, startText, 1)

\* str.strip() of the file names and building uses of the model.
Strip(s) ==
    IF s = " Offices" THEN "Offices"
    ELSE IF s = " input.json" THEN "input.json"
    ELSE IF s = " " THEN ""
    ELSE s

\* validateCommandLineParameters: the message of the exception it raises,
\* "" when it raises none. `files` are the paths that exist.
validateCommandLineParameters(parameters, files) ==
    IF Len(parameters) # 5
    THEN "The number of input parameters is incorrect! (5)"
    ELSE IF Strip(parameters[2]) \notin files
    THEN "The process input data file does not exist!"
    ELSE IF strptime(parameters[3]) = <<>>
    THEN "The third input parameter (start datetime) has an incorrect format"
    ELSE IF strptime(parameters[4]) = <<>>
    THEN "The fourth input parameter (end datetime) has an incorrect format"
    ELSE IF EndNotAfterStart(parameters[3], parameters[4])
    THEN "The end time cannot be less than the start time!"
    ELSE IF \/ parameters[5] = ""
            \/ Strip(parameters[5]) = ""
            \/ Strip(parameters[5]) \notin SeqToSet(BUILDING_USES)
    THEN "The building use must be one of the following"
    ELSE ""

CommandTimes ==
    { <<2019, 3, 1, 13, 0, 0>>, <<2019, 3, 2, 13, 0, 0>>,
      <<2019, 10, 1, 13, 0, 0>> }

\* The times as the caller may write them: as documented, with a one-digit
\* month, with a blank in place of the T, and the empty string.
CommandTimeTexts ==
    {TimeText(t, TRUE, LetterT) : t \in CommandTimes}
    \cup {TimeText(t, FALSE, LetterT) : t \in CommandTimes}
    \cup {TimeText(<<2019, 3, 1, 13, 0, 0>>, TRUE, Blank), <<>>}

CommandFiles == {"input.json", " input.json", "wrong_input.json", ""}

CommandUses == {"Apartment Block", "Sport", " Offices", "Test", "", " "}

\* The entries after the name of the program.
CommandLengths == {1, 5, 6}

\* The paths that exist.
ExistingFiles == {"input.json"}

InitCommandLine ==
    /\ pc = "validate"
    /\ \E n \in CommandLengths, file \in CommandFiles,
          startText \in CommandTimeTexts, endText \in CommandTimeTexts,
          use \in CommandUses :
          payload =
              [ parameters |->
                  IF n = 1 THEN <<file>>
                  ELSE << "building_energy_process.py", file, startText,
                          endText, use >>
                       \o (IF n = 6 THEN <<"more">> ELSE <<>>),
                files |-> ExistingFiles ]
    /\ verdict = Idle
    /\ weather = Idle
    /\ dfCSV = <<>>
    /\ dfTemperatures = <<>>
    /\ dfSchedule = <<>>
    /\ dfSolarResults = <<>>
    /\ dictSchedule = <<>>
    /\ dictConsolidated = <<>>
    /\ dictHourlyResults = <<>>
    /\ output = <<>>
    /\ request = NoRequest
    /\ result = Pending
    /\ error = ""
    /\ frames = <<>>

\* validator.validateCommandLineParameters(sys.argv)
ExecValidateCommandLine ==
    /\ pc = "validate"
    /\ LET raised == validateCommandLineParameters(payload.parameters,
                                                   payload.files)
       IN  verdict' = (IF raised = "" THEN "accepted" ELSE raised)
    /\ pc' = "validated"
    /\ UNCHANGED <<engineVars, payload, weather>>

NextCommandLine == ExecValidateCommandLine

SpecCommandLine == InitCommandLine /\ [][NextCommandLine]_vars

\* time a is before time b
TimeBefore(a, b) == a # b /\ TimestampLe(a, b)

\* The conditions under which the validation is to raise, the times taken
\* as strptime reads them.
CommandLineAtFault(parameters, files) ==
    \/ Len(parameters) # 5
    \/ Strip(parameters[2]) \notin files
    \/ strptime(parameters[3]) = <<>>
    \/ strptime(parameters[4]) = <<>>
    \/ TimeBefore(strptime(parameters[4]), strptime(parameters[3]))
    \/ Strip(parameters[5]) \notin SeqToSet(BUILDING_USES)

\* C26: validateCommandLineParameters raises when there are not exactly 5
\* parameters, the payload file does not exist, the start or the end time
\* is not written as YYYY-MM-DDTHH:MM:SS, the end time is less than the
\* start time or the building use is not one of the 9 archetypes, and
\* raises nothing otherwise.
C26_RaisesExactlyWhenAtFault ==
    pc = "validated" =>
        ( verdict # "accepted"
          <=> CommandLineAtFault(payload.parameters, payload.files) )


-----------------------------------------------------------------------------
(* Archetypes without PV and archetypes without buildings (specification    *)
(* Spec)                                                                    *)

\* The archetypes that have a building in the inventory.
Populated == {a \in SeqToSet(BUILDING_USES) : RowsInOrder(dfCSV, a, 1) # <<>>}

\* The archetypes whose installed PV area is 0: s05RetrieveSolarData has run
\* and made no column for them.
WithoutPV ==
    IF dfSolarResults = <<>> THEN {}
    ELSE SeqToSet(BUILDING_USES) \ DOMAIN dfSolarResults

\* C28: when the installed PV area of an archetype is 0 the run still
\* completes - stage 22 raises nothing - and the hourly Electricity of that
\* archetype is the sum of the electricity columns of its buildings, with
\* nothing subtracted.
C28_NoPVLeavesElectricityGross ==
    \A a \in WithoutPV \cap Populated :
        /\ ~(pc = "except" /\ error = "KeyError" /\ dictHourlyResults = <<>>)
        /\ pc = "format" =>
              \A h \in Hours :
                  dictHourlyResults[a].rows[h].value["Electricity"]
                      = BeforePV(a, h)["Electricity"]

\* C29: when an archetype has no building in the inventory the run still
\* completes - formatHourlyResults raises nothing - and the output maps the
\* archetype to one record per hour, each with its Datetime and with every
\* consumption 0.
C29_EmptyArchetypeGetsZeroRecords ==
    \A a \in SeqToSet(BUILDING_USES) \ Populated :
        /\ ~(pc = "except" /\ error = "KeyError" /\ dictHourlyResults # <<>>
             /\ output = <<>>)
        /\ (pc \in {"return", "done"} /\ output # <<>>) =>
              \A h \in Hours :
                  /\ output[a][h].Datetime # <<>>
                  /\ \A b \in BucketSet : IsZero(output[a][h].value[b])


-----------------------------------------------------------------------------
(* main of building_energy_process.py (specification SpecMain). `request`   *)
(* is the list of the calls main has made, `result` the payload it holds    *)

\* constants.DATABASE
DATABASE ==
    << "database/01-ACH.csv", "database/02-BaseTemperatures.csv",
       "database/03-BES_Capacity.csv", "database/04-BES_CAPEX.csv",
       "database/05-BES_OPEX.csv", "database/06-DemandNinja_Radiation_DB.csv",
       "database/07-DemandNinja_Temperature_DB.csv",
       "database/08-DHW&InternalGains.csv",
       "database/09-DwellingSizeAndShare.csv", "database/13-R_T_hh_eff.xlsx",
       "database/14-RES.csv", "database/15-RES_hh_tes.xlsx",
       "database/16-RetrofittingCost.csv",
       "database/17-RetrofittingUValues.csv", "database/18-Schedule.csv",
       "database/19-SER_hh_tes.xlsx",
       "database/20-SolarGainsNONOffice(Wm2).csv",
       "database/21-SolarGainsOffice(Wm2).csv", "database/22-UValues.csv",
       "database/23-YearPeriods.csv", "database/24-Sectors.csv",
       "database/25-CategorizationShare.csv", "database/26-Season.csv",
       "database/27-Calendar.csv" >>

\* A check of the database that finds every file.
DatabaseTakenAsWhole(files) == ""

\* validateDatabaseIntegrity: the exception of the first file of
\* constants.DATABASE that does not exist, "" when all do.
validateDatabaseIntegrity(files) ==
    IF \E i \in 1..Len(DATABASE) : DATABASE[i] \notin files
    THEN "The file does not exist in the database!"
    ELSE ""

\* The command lines of the runs.
MainParameters ==
    LET line(startText, endText, use) ==
            << "building_energy_process.py", "input.json", startText,
               endText, use >>
        first == TimeText(<<2019, 3, 1, 13, 0, 0>>, TRUE, LetterT)
        second == TimeText(<<2019, 3, 2, 13, 0, 0>>, TRUE, LetterT)
    IN  { line(first, second, "Offices"), line(first, second, "Test"),
          line(second, first, "Offices"),
          line(first, TimeText(<<2019, 3, 2, 13, 0, 0>>, TRUE, Blank),
               "Offices") }

\* The files that exist: all of them, or all but one.
MainFiles ==
    LET all == SeqToSet(DATABASE) \cup {"input.json"}
    IN  {all, all \ {"input.json"}, all \ {"database/01-ACH.csv"},
         all \ {"database/27-Calendar.csv"}}

\* What the payload file holds: a document, or text that is not JSON.
MainDocuments ==
    { CompleteDocument,
      Put(CompleteDocument, Path("", 0, "year", 0, 0), Num(Z(1899))),
      Document(BUILDING_USES, BUILDING_USES, BUILDING_USES, <<>>) }

InitMain ==
    /\ pc = "main"
    /\ payload \in [parameters : MainParameters, files : MainFiles,
                    document : MainDocuments, json : BOOLEAN]
    /\ request = <<>>
    /\ verdict = Idle
    /\ weather = Idle
    /\ dfCSV = <<>>
    /\ dfTemperatures = <<>>
    /\ dfSchedule = <<>>
    /\ dfSolarResults = <<>>
    /\ dictSchedule = <<>>
    /\ dictConsolidated = <<>>
    /\ dictHourlyResults = <<>>
    /\ output = <<>>
    /\ result = Pending
    /\ error = ""
    /\ frames = <<>>

\* A step of main: the call is made; when it raises, main goes to its except
\* branch, prints the exception and ends.
MainStep(call, raised, next) ==
    /\ request' = Append(request, call)
    /\ IF raised # ""
       THEN error' = raised /\ pc' = "printed"
       ELSE pc' = next /\ UNCHANGED error
    /\ UNCHANGED <<dfCSV, dfTemperatures, dfSchedule, dfSolarResults,
                   dictSchedule, dictConsolidated, dictHourlyResults, output,
                   payload, verdict, weather, frames>>

\* validator.validateCommandLineParameters(sys.argv)
MainValidateCommandLine ==
    /\ pc = "main"
    /\ MainStep("validateCommandLineParameters",
                validateCommandLineParameters(payload.parameters,
                                              payload.files),
                "load")
    /\ UNCHANGED result

\* with open(sys.argv[1].strip(), 'r') as payloadFile: json.load(payloadFile)
MainLoadPayload ==
    /\ pc = "load"
    /\ MainStep("json.load",
                IF payload.json THEN "" ELSE "JSONDecodeError",
                "validatePayload")
    /\ result' = (IF payload.json
                  THEN [kind |-> "payload", payload |-> payload.document]
                  ELSE result)

\* processPayload = validator.validateProcessPayload(processPayload)
MainValidatePayload ==
    /\ pc = "validatePayload"
    /\ MainStep("validateProcessPayload",
                validateWholePayload(result.payload), "database")
    /\ UNCHANGED result

\* validator.validateDatabaseIntegrity()
MainValidateDatabase ==
    /\ pc = "database"
    /\ MainStep("validateDatabaseIntegrity",
                validateDatabaseIntegrity(payload.files), "engine")
    /\ UNCHANGED result

\* executeBuildingEnergySimulationProcess(processPayload, sys.argv[2],
\* sys.argv[3], sys.argv[4]); it handles its own exceptions.
MainExecute ==
    /\ pc = "engine"
    /\ MainStep("executeBuildingEnergySimulationProcess", "", "done")
    /\ UNCHANGED result

NextMain ==
    \/ MainValidateCommandLine
    \/ MainLoadPayload
    \/ MainValidatePayload
    \/ MainValidateDatabase
    \/ MainExecute

SpecMain == InitMain /\ [][NextMain]_vars

EngineInvoked ==
    \E i \in 1..Len(request) :
        request[i] = "executeBuildingEnergySimulationProcess"

\* Every file of the database exists.
DatabaseIntact(files) == \A i \in 1..Len(DATABASE) : DATABASE[i] \in files

\* C30: main invokes the engine only after the command-line validation, the
\* payload validation and the database validation, made in that order, have
\* all succeeded; when one of them raises the engine is not invoked in the
\* run.
C30_EngineOnlyAfterValidations ==
    /\ EngineInvoked =>
          /\ SelectSeq(request, LAMBDA c : c # "json.load")
                 = << "validateCommandLineParameters",
                      "validateProcessPayload", "validateDatabaseIntegrity",
                      "executeBuildingEnergySimulationProcess" >>
          /\ validateCommandLineParameters(payload.parameters,
                                           payload.files) = ""
          /\ validateWholePayload(payload.document) = ""
          /\ DatabaseIntact(payload.files)
          /\ error = ""
    /\ error # "" => (pc = "printed" /\ ~EngineInvoked)

\* A run in which the three validations have succeeded and the engine has
\* been invoked after them.
C30_Witness ==
    /\ pc = "done"
    /\ Len(request) = 5
    /\ request[4] = "validateDatabaseIntegrity"
    /\ request[5] = "executeBuildingEnergySimulationProcess"
    /\ error = ""
====
